---- MODULE Spec2Model ----
(***************************************************************************)
(* A model of the vello_bench measurement engine: BenchRunner (runner.rs), *)
(* the Timer it is generic over, and the benchmark drivers that hand it a  *)
(* closure (benchmarks/*.rs, vello_bench_wasm/src/lib.rs).                 *)
(*                                                                         *)
(* One run is a sequential program; pc is the statement about to execute.  *)
(* The clock counts ticks since the run was entered: the runner only ever  *)
(* observes differences of clock readings.  Durations are kept in ticks;   *)
(* the linear tick-to-nanosecond factor of Timer::elapsed_ns is left out   *)
(* because it only rescales every duration by the same constant.           *)
(* The only statements that take time are the benchmarked closure (cost    *)
(* ticks per call) and Timer::wait_one_frame.                              *)
(***************************************************************************)
EXTENDS Integers, Sequences, FiniteSets, TLC

\* ------------------------------------------------------------------ bounds
MaxWarmup == 2      \* warmup counts explored: 0..MaxWarmup
MaxIters  == 3      \* iteration counts explored: 0..MaxIters (and the threshold)
MaxCost   == 2      \* cost of one closure call, in ticks: 1..MaxCost
ArchiveCmds == 2    \* draw commands in the serialized scene archive
MaxImages == 2      \* images the shared WebGL renderer may hold before a run
MaxThreads == 2     \* num_threads handed to Renderer::new: 0..MaxThreads
MaxCalls == 3       \* operations a caller makes on an adapter it constructed
MaxWidth == 130     \* target widths read back: 1..MaxWidth and the sizes in use
MaxHeight == 2      \* target heights read back: 1..MaxHeight
MaxArchives == 3    \* embedded archives of a build whose loading is explored
MaxGets == 2        \* get_scenes / get_vello_scenes calls a thread makes

\* -------------------------------------------------------- program constants
MAX_MARKED_ITERS == 10000
\* const FRAME_WAIT_MS: f64 = 16.67, in hundredths of a millisecond
FRAME_WAIT_CENTI_MS == 1667
DEFAULT_SCENE_WIDTH == 1024
DEFAULT_SCENE_HEIGHT == 768
COPY_BYTES_PER_ROW_ALIGNMENT == 256
BYTES_PER_PIXEL == 4
\* filled_rects: let cols = 16u16; let rows = 12u16
FILLED_RECTS_COLS == 16
FILLED_RECTS_ROWS == 12
\* tiled_flowers_100: count: 100
TILED_FLOWERS_COUNT == 100

VARIABLES
    wasm,         \* TRUE: PlatformTimer = WasmTimer, FALSE: NativeTimer
    pc,           \* the statement about to execute
    caller,       \* the entry point of this run
    warmup,       \* BenchRunner.warmup
    iterations,   \* BenchRunner.iterations
    cost,         \* ticks one call of the benchmarked closure takes
    i,            \* the loop variable of the running loop
    clock,        \* ticks since the run was entered
    start,        \* measure: let start = timer.now()
    iter_start,   \* measure_per_iteration_with_frame_wait: let iter_start
    total_ns,     \* measure_per_iteration_with_frame_wait: let mut total_ns
    emit_marks,   \* measure_per_iteration_with_frame_wait: let emit_marks
    statistics,   \* the Statistics of the measurement phase, or NoStatistics
    result,       \* what the entry point returned, or NoResult
    perfMarks,    \* number of marks in the browser's Performance timeline
    perfMeasures, \* number of measures in the browser's Performance timeline
    name,         \* the scene name the driver was asked for, or NoValue
    rend,         \* the backend adapter of this run: retained commands, last frame
    state,        \* the Box<dyn Any> that setup_scene returned, or NoState
    gpuImages,    \* images uploaded into the GPU renderer in use
    canvas,       \* HYBRID_STATE: the canvas size, or NoCanvas before init_hybrid
    hist,         \* history of this run (observation only, never read by the code)
    rb,           \* a pixel readback in progress: its locals and what it has copied
    sceneFiles,   \* SCENE_FILES: the embedded archives, and whether each parses
    SCENES,       \* static SCENES: OnceLock<Vec<SceneItem>>
    reg,          \* the threads calling get_scenes, and what they were given
    HYBRID_STATE, \* thread_local HYBRID_STATE: the RefCell's borrow flag and the renderer
    dr            \* a call of a scene's draw routine in progress: its locals

timerVars  == <<clock, start, iter_start, total_ns, emit_marks, statistics>>
configVars == <<caller, warmup, iterations, cost, name>>
perfVars   == <<perfMarks, perfMeasures>>
sceneVars  == <<rend, state, gpuImages, canvas>>
fixedVars == <<wasm, rb, sceneFiles, SCENES, reg, dr>>
processVars == <<fixedVars, HYBRID_STATE>>
runVars == <<wasm, pc, caller, warmup, iterations, cost, i, clock, start, iter_start,
             total_ns, emit_marks, statistics, result, perfMarks, perfMeasures,
             name, rend, state, gpuImages, canvas, hist, HYBRID_STATE>>
vars == <<runVars, rb, sceneFiles, SCENES, reg, dr>>

NoValue == "none"
\* No setup state, no canvas, no Statistics, no result.
NoState == [ type |-> NoValue, image |-> <<>> ]
NoCanvas == <<>>
NoStatistics == [ some |-> FALSE ]
NoResult == [ kind |-> NoValue ]
\* Option::None / JsValue::NULL
AbsentResult == [ kind |-> "absent" ]

\* The three public entry points of BenchRunner, called with a plain closure.
DirectCallers == {"run", "run_with_callback", "run_with_frame_wait"}
\* The drivers of programmatic scenes: vello_cpu::run, vello_hybrid::run_native
\* and run_vello_hybrid_benchmark (WebGL).
ProgrammaticDrivers == {"vello_cpu", "vello_hybrid", "vello_hybrid_webgl"}
\* The drivers that replay a serialized scene: scene_cpu::run,
\* scene_hybrid::run_native, scene_skia::run_native and run_hybrid_benchmark (WebGL).
ReplayDrivers == {"scene_cpu", "scene_hybrid", "scene_skia", "scene_hybrid_webgl"}
Drivers == ProgrammaticDrivers \cup ReplayDrivers
Callers == DirectCallers \cup Drivers

\* vello_bench_wasm is compiled for wasm32 only.
WebGlDrivers == {"vello_hybrid_webgl", "scene_hybrid_webgl"}
\* On wasm32 these run functions return None without doing anything.
NativeOnlyDrivers == {"vello_hybrid", "scene_hybrid", "scene_skia"}

\* The screenshot functions of vello_bench_core::screenshot, and the two of
\* vello_bench_wasm that leave the frame on the canvas.
CoreScreenshots ==
    {"render_scene_cpu", "render_scene_hybrid", "render_scene_skia",
     "render_vello_scene_cpu", "render_vello_scene_hybrid"}
WebGlScreenshots == {"render_hybrid_once", "render_vello_hybrid_once"}
Screenshots == CoreScreenshots \cup WebGlScreenshots

\* The benchmark a screenshot function is the visual check of.
BenchmarkOf(s) ==
    CASE s = "render_scene_cpu" -> "scene_cpu"
      [] s = "render_scene_hybrid" -> "scene_hybrid"
      [] s = "render_scene_skia" -> "scene_skia"
      [] s = "render_vello_scene_cpu" -> "vello_cpu"
      [] s = "render_vello_scene_hybrid" -> "vello_hybrid"
      [] s = "render_hybrid_once" -> "scene_hybrid_webgl"
      [] s = "render_vello_hybrid_once" -> "vello_hybrid_webgl"

\* The driver whose lookup, backend and setup an entry point goes through.
Driver(c) == IF c \in Screenshots THEN BenchmarkOf(c) ELSE c

\* run_with_timer's per_iteration argument, as each entry point passes it.
\* Every driver calls BenchRunner::run.
PerIteration(c) == c = "run_with_frame_wait"

\* The registered programmatic scenes that are modelled, and the archive scene.
VelloScenes == {"filled_rects", "tiled_flowers_100"}
ArchiveScenes == {"archive_scene"}
UnknownName == "no_such_scene"

\* SceneItem { name, archive, width, height } of an archive that parsed.
SceneItem(nm) ==
    [ name |-> nm, width |-> DEFAULT_SCENE_WIDTH, height |-> DEFAULT_SCENE_HEIGHT ]

\* Variant: a failure drops the scenes loaded before it.
Loaded_FailureDropsEarlier(acc, f) ==
    IF f.ok THEN Append(acc, SceneItem(f.name)) ELSE <<>>

\* The filter_map closure of get_scenes on one entry of SCENE_FILES, acc being
\* what was collected so far: Ok(archive) adds a SceneItem, Err(e) is logged
\* and adds nothing.
Loaded(acc, f) == IF f.ok THEN Append(acc, SceneItem(f.name)) ELSE acc

\* SCENE_FILES.iter().filter_map(..).collect(), files being SCENE_FILES.
RECURSIVE LoadScenes(_)
LoadScenes(files) ==
    IF files = <<>>
    THEN <<>>
    ELSE Loaded(LoadScenes(SubSeq(files, 1, Len(files) - 1)), files[Len(files)])

\* OnceLock::new()
NoScenes == [ init |-> FALSE, owner |-> NoValue, value |-> <<>> ]

\* SCENES.get_or_init(..) with no other thread about: the value is computed
\* on the first call and kept.
GetOrInit(once, files) ==
    IF once.init THEN once ELSE [once EXCEPT !.init = TRUE, !.value = LoadScenes(files)]

\* The names in a registry.
NamesOf(items) == {items[k].name : k \in 1..Len(items)}

\* The names a driver finds: those of get_vello_scenes() or of get_scenes().
Registry(c) ==
    IF c \in ProgrammaticDrivers THEN VelloScenes ELSE NamesOf(LoadScenes(sceneFiles))

\* The category a WebGL entry point strips from the identifier it is given:
\* id.strip_prefix("scene_hybrid/") / id.strip_prefix("vello_hybrid/").
Prefix(c) == IF c = "scene_hybrid_webgl" THEN "scene_hybrid" ELSE "vello_hybrid"

\* The names a caller asks a driver for.
Names(c) ==
    IF c \in ProgrammaticDrivers THEN VelloScenes \cup {UnknownName}
    ELSE IF c \in Drivers THEN ArchiveScenes \cup {UnknownName}
    ELSE {NoValue}

\* The identifiers an entry point is called with.  The WebGL entry points take
\* a benchmark id, <<category, name>> standing for "category/name"; the others
\* take the name itself.
Ids(c) ==
    IF c \in WebGlDrivers
    THEN {<<cat, nm>> : cat \in {"scene_hybrid", "vello_hybrid", "scene_cpu"},
                        nm \in Names(c)}
    ELSE {<<nm>> : nm \in Names(c)}

\* Variant: whatever stands before the separator is dropped.
StripPrefix_AnyCategory(ident, c) == ident[Len(ident)]

\* The scene name an entry point works with: id.strip_prefix(..) for the WebGL
\* entry points, None (no name) when the identifier has another prefix.
StripPrefix(ident, c) ==
    IF c \in WebGlDrivers /\ ident[1] # Prefix(c) THEN NoValue ELSE ident[Len(ident)]

\* Variant: every category lists the programmatic scenes.
List_Programmatic(c) == VelloScenes

\* list() of a category: one BenchmarkInfo per item of get_vello_scenes() for
\* the programmatic categories, per item of get_scenes() for the replay ones.
List(c) ==
    IF c \in ProgrammaticDrivers THEN VelloScenes ELSE NamesOf(LoadScenes(sceneFiles))

\* The category run functions of vello_bench_core::benchmarks.
CategoryRuns == Drivers \ WebGlDrivers

\* The canvas init_hybrid is handed: the HTML default size or a scene's size.
CanvasSizes == {<<300, 150>>, <<1024, 768>>, <<1920, 1080>>}

\* <$scene as VelloScene>::State
StateType(nm) == IF nm = "filled_rects" THEN "()" ELSE "ImageGridState"

\* VelloSceneInfo / SceneItem width and height
SceneSize(nm) == IF nm = "tiled_flowers_100" THEN <<1920, 1080>> ELSE <<1024, 768>>

\* The number of draw commands one draw of the scene issues.
DrawCmds(nm) ==
    CASE nm = "filled_rects" -> FILLED_RECTS_COLS * FILLED_RECTS_ROWS
      [] nm = "tiled_flowers_100" -> TILED_FLOWERS_COUNT
      [] OTHER -> ArchiveCmds

\* Iteration counts: small ones, and the two on either side of the mark threshold.
IterChoices == (0..MaxIters) \cup {MAX_MARKED_ITERS, MAX_MARKED_ITERS + 1}

\* Threshold-sized runs are explored for one warmup count and one closure
\* cost, and in a process whose canvas and registries are untouched: a direct
\* caller's run reads none of them.
Explored(c, w, n, d) ==
    n > MaxIters =>
        /\ c \in DirectCallers /\ w = 0 /\ d = 1
        /\ canvas = NoCanvas /\ gpuImages = 0
        /\ ~SCENES.init /\ sceneFiles[1].ok

\* The implementors of the Renderer trait.
Backends == {"RenderContext", "HybridRenderer", "WebGlHybridRenderer"}

\* fearless_simd::Level and vello_cpu::RenderMode values.
Levels == {"fallback", "simd"}
RenderModes == {"OptimizeSpeed", "OptimizeQuality"}

\* The paints a caller sets; a fresh RenderContext / Scene paints black.
Paints == {"red", "blue"}
DefaultPaint == "black"

\* The settings of an adapter that was not built by Renderer::new.
NoSettings == [ num_threads |-> 0, level |-> NoValue, render_mode |-> NoValue ]

\* No adapter has been constructed.
NoRenderer ==
    [ kind |-> NoValue, settings |-> NoSettings, cmds |-> 0,
      ambient |-> DefaultPaint, pending |-> 0, frame |-> 0, ops |-> <<>>,
      panic |-> FALSE, borrows |-> 0, already_borrowed |-> FALSE ]

HistInit ==
    [ clearedMarks    |-> FALSE,  \* clear_marks was called in this run
      clearedMeasures |-> FALSE,  \* clear_measures was called in this run
      marks           |-> 0,      \* Timer::mark calls of this run
      spans           |-> 0,      \* Timer::measure_span calls of this run
      lastMark        |-> <<>>,   \* the name of the last mark
      warm            |-> 0,      \* closure calls made by warmup
      meas            |-> 0,      \* closure calls made by the measurement phase
      cb              |-> 0,      \* on_calibrated calls
      cbAt            |-> <<>>,   \* <<warm, meas>> when on_calibrated was called
      waits           |-> 0,      \* Timer::wait_one_frame calls
      waitAt          |-> <<>>,   \* <<warm, meas>> at the last wait_one_frame
      startMarks      |-> 0,      \* per-iteration start marks
      endMarks        |-> 0,      \* per-iteration end marks
      iterSpans       |-> 0,      \* per-iteration measure_span calls
      reads           |-> 0,      \* Timer::now calls
      readAt          |-> <<>>,   \* <<warm, meas>> at the last Timer::now
      elapsed         |-> 0,      \* Timer::elapsed_ns calls
      elapsedAt       |-> <<>>,   \* <<warm, meas>> at the last Timer::elapsed_ns
      handed          |-> <<>>,   \* <<elapsed_ns, total_iters>> given to Statistics
      timing          |-> FALSE,  \* between a Timer::now and its elapsed_ns
      timedMarks      |-> 0,      \* marks and spans made while timing
      timedWaits      |-> 0,      \* wait_one_frame calls made while timing
      tMeasureStart   |-> 0,      \* clock at the measure:start mark
      tMeasureEnd     |-> 0,      \* clock at the measure:end mark
      setups          |-> 0,      \* setup_scene calls of this run
      setupAt         |-> <<>>,   \* <<warm, meas, timing>> when setup was called
      setupState      |-> NoState,\* what setup_scene returned
      draws           |-> 0,      \* draw_scene calls of this run
      drawStates      |-> {},     \* the states draw_scene was called with
      cmdsFirst       |-> 0,      \* retained commands when the first call of f began
      cmdsLast        |-> 0,      \* retained commands when the last call of f began
      frameFirst      |-> 0,      \* commands rendered by the first call of f
      built           |-> 0,      \* adapters constructed in this run
      call            |-> <<>>,   \* the arguments of the last Renderer::new
      beforeRead      |-> <<>>,   \* <<cmds, ambient>> before the first of a row of readbacks
      readback        |-> <<>>,   \* what each render_to_pixmap of the row read back
      id              |-> <<>>,   \* the identifier a WebGL entry point was called with
      before          |-> <<>>,   \* <<canvas, gpuImages, HYBRID_STATE>> on entry
      created         |-> 0,      \* WebGlRenderer::new calls of this run
      frames          |-> 0,      \* frames a screenshot function rendered
      frameOps        |-> <<>>,   \* the adapter operations of that frame
      closureOps      |-> <<>> ]  \* those of one call of the benchmark's closure

\* No pixel readback is in progress.
NoReadback ==
    [ fn |-> NoValue, width |-> 0, height |-> 0, bytes_per_row |-> 0,
      size |-> 0, row |-> 0, out |-> <<>>, pc |-> "none" ]

\* The threads that may call get_scenes.
Threads == {"t1", "t2"}

\* No thread has called get_scenes or get_vello_scenes.
NoCalls ==
    [ tpc      |-> [t \in Threads |-> "idle"],  \* where each thread is in get_scenes
      idx      |-> 1,       \* the entry of SCENE_FILES the initializer is at
      acc      |-> <<>>,    \* what the initializer has collected
      loads    |-> <<>>,    \* the entries deserialized so far, in order
      log      |-> <<>>,    \* the failures written to the console / stderr
      calls    |-> [t \in Threads |-> 0],      \* calls each thread has made
      returned |-> {},      \* the values get_scenes has returned
      vello    |-> {} ]     \* the values get_vello_scenes has returned

\* The build this process is: its one archive parses, or does not.
ProcessArchives == {<<[name |-> "archive_scene", ok |-> b]>> : b \in BOOLEAN}

\* HYBRID_STATE before init_hybrid: RefCell::new(None).  borrowed is the
\* RefCell's borrow flag; made_for is the canvas size the WebGlRenderer of
\* HybridState was created at (its GL context), NoCanvas while there is none.
NoHybridState == [ borrowed |-> FALSE, made_for |-> NoCanvas, already_borrowed |-> FALSE ]

\* A u64 is its eight bytes, least significant first.
\* let mut seed: u64 = 12345
SEED == <<57, 48, 0, 0, 0, 0, 0, 0>>

\* The locals of a call that has not begun.
NoLocals ==
    [ fn |-> NoValue, count |-> 0, batch |-> 0, width |-> 0, height |-> 0,
      rows |-> 0, cols |-> 0, row |-> 0, col |-> 0, n |-> 0, iter |-> 0, p |-> 0,
      seed |-> SEED, coords |-> <<>>, at |-> "none",
      depth |-> 0, low |-> 0, pushed |-> 0, paths |-> 0, images |-> 0 ]

\* No routine has been called: dr is [pc: where the call is, entry: the
\* function called, name: the name it was given, arm: the match arm taken,
\* ran: the routines that ran, result: what setup_scene returned, call: the
\* number of the draw call, up: the rounding of the f64 grid computation,
\* first: the locals the first draw call began with, cur: the locals of the
\* call in progress, ops: what its last step issued, ref / refOps: the first
\* call replayed in step with a later one].
NoDraw ==
    [ pc |-> "none", entry |-> NoValue, name |-> NoValue, arm |-> 0, ran |-> <<>>,
      result |-> NoValue, call |-> 0, up |-> 0,
      first |-> NoLocals, cur |-> NoLocals, ops |-> <<>>,
      ref |-> NoLocals, refOps |-> <<>> ]

\* No entry point has been called yet.
NoRun ==
    /\ pc = "idle"
    /\ caller = "run"
    /\ warmup = 0
    /\ iterations = 0
    /\ cost = 1
    /\ i = 0
    /\ clock = 0
    /\ start = 0
    /\ iter_start = 0
    /\ total_ns = 0
    /\ emit_marks = FALSE
    /\ statistics = NoStatistics
    /\ result = NoResult
    /\ perfMarks = 0
    /\ perfMeasures = 0
    /\ name = NoValue
    /\ rend = NoRenderer
    /\ state = NoState
    /\ gpuImages = 0
    /\ canvas = NoCanvas
    /\ hist = HistInit
    /\ HYBRID_STATE = NoHybridState

Init ==
    /\ wasm \in BOOLEAN
    /\ NoRun
    /\ rb = NoReadback
    /\ sceneFiles \in ProcessArchives
    /\ SCENES = NoScenes
    /\ reg = NoCalls
    /\ dr = NoDraw

\* ------------------------------------------------------------------- Timer
\* WasmTimer::wait_one_frame busy-waits while now() < target, where target is
\* now() + FRAME_WAIT_MS; the default (NativeTimer) is a no-op.  The result is
\* the ticks it takes: a tick is one millisecond, and the loop leaves at the
\* first whole tick that is not below the target.
WaitOneFrame(w) == IF w THEN (FRAME_WAIT_CENTI_MS + 99) \div 100 ELSE 0

\* Timer::elapsed_ns(start) at time now.
ElapsedNs(now, st) == now - st

\* Timer::mark: WasmTimer adds an entry to the timeline, the default does nothing.
MarkEffect(w, n) == IF w THEN n + 1 ELSE n

\* Timer::measure_span: WasmTimer adds a measure, the default does nothing.
MeasureSpanEffect(w, n) == IF w THEN n + 1 ELSE n

\* Variant: clear_marks leaves the timeline as it is.
ClearMarksEffect_Noop(w, n) == n

\* Timer::clear_marks / clear_measures: WasmTimer empties the timeline.
ClearMarksEffect(w, n) == IF w THEN 0 ELSE n
ClearMeasuresEffect(w, n) == IF w THEN 0 ELSE n

\* timer.mark(name), as a step of the run
Mark(markName) ==
    /\ perfMarks' = MarkEffect(wasm, perfMarks)
    /\ UNCHANGED perfMeasures

\* timer.measure_span(...), as a step of the run
MeasureSpan ==
    /\ perfMeasures' = MeasureSpanEffect(wasm, perfMeasures)
    /\ UNCHANGED perfMarks

HMark(h, markName) ==
    [h EXCEPT !.marks = @ + 1, !.lastMark = markName,
              !.timedMarks = IF h.timing THEN @ + 1 ELSE @]
HSpan(h) ==
    [h EXCEPT !.spans = @ + 1, !.timedMarks = IF h.timing THEN @ + 1 ELSE @]
\* the history after timer.now() / timer.elapsed_ns(..)
HNow(h) ==
    [h EXCEPT !.reads = @ + 1, !.readAt = <<h.warm, h.meas>>, !.timing = TRUE]
HElapsed(h) ==
    [h EXCEPT !.elapsed = @ + 1, !.elapsedAt = <<h.warm, h.meas>>, !.timing = FALSE]

\* -------------------------------------------------------------- Statistics
\* Statistics::from_measurement(elapsed_ns, total_iters)
FromMeasurement(elapsed, n) ==
    [ some |-> TRUE, total |-> elapsed, iters |-> n,
      mean |-> IF n > 0 THEN elapsed \div n ELSE 0 ]

\* ------------------------------------------------------ backend adapters
\* An adapter is [kind: the implementor, settings: what its constructor kept of
\* its arguments, cmds: the draw commands its RenderContext / Scene retains,
\* ambient: the current paint, pending: the submissions the device has not
\* finished, frame: the commands the last render put on the target, ops: the
\* operations of the current closure call or session, panic: the call aborted,
\* borrows: the RefMut guards alive on its RefCell `renderer`, already_borrowed:
\* a borrow_mut found the RefCell borrowed (BorrowMutError)].
Op(r, o) == [r EXCEPT !.ops = Append(@, o)]

\* self.renderer.borrow_mut(): panics when a guard is alive, else hands one out.
BorrowMut(r) ==
    IF r.borrows > 0
    THEN [Op(r, "borrow_mut") EXCEPT !.panic = TRUE, !.already_borrowed = TRUE]
    ELSE Op([r EXCEPT !.borrows = 1], "borrow_mut")

\* The RefMut is dropped: at the end of the statement for a temporary, at the
\* end of the function for a `let` binding.
DropGuard(r) == Op([r EXCEPT !.borrows = 0], "drop")

\* Renderer::fill_rect and the other shape operations, n times: the backend
\* appends the geometry to its pending draw state.
Append_(r, n) == [r EXCEPT !.cmds = @ + n]

\* RenderContext::flush (num_threads = 0) / HybridRenderer::flush: nothing retained changes.
Flush(r) == Op(r, "flush")

\* Renderer::render_to_pixmap for RenderContext: rasterizes what is retained; pure read.
CpuRenderToPixmap(r) == Op([r EXCEPT !.frame = r.cmds], "render_to_pixmap")

\* vello_hybrid::Renderer::render / WebGlRenderer::render of the retained scene.
GpuRender(r) == Op([r EXCEPT !.frame = r.cmds], "render")

\* WebGlRenderer::render: the draw calls go to the GL context as they are made.
WebGlRender(r) == [GpuRender(r) EXCEPT !.pending = @ + 1]

\* Scene::reset / VelloCpuScenePainter::reset: drops the retained commands
\* and puts the drawing state back to its defaults.
Reset(r) == Op([r EXCEPT !.cmds = 0, !.ambient = DefaultPaint], "reset")

\* queue.submit([encoder.finish()]): the device starts on the work, the call returns.
Submit(r) == Op([r EXCEPT !.pending = @ + 1], "submit")

\* device.poll(PollType::wait_indefinitely()) / gl_context().finish(): blocks
\* until the device has finished everything submitted so far.
Wait(r) == Op([r EXCEPT !.pending = 0], "wait")

\* Variant: render_and_sync submits and resets without polling the device.
RenderAndSync_NoWait(r) == Reset(Submit(DropGuard(GpuRender(BorrowMut(r)))))

\* HybridRenderer::render_and_sync: render under a temporary borrow of the
\* renderer, submit, poll(wait), scene.reset().
RenderAndSync(r) == Reset(Wait(Submit(DropGuard(GpuRender(BorrowMut(r))))))

\* Variant: the guard of the render call is bound to a local and is alive
\* when gl_context() is borrowed.
WebGlRenderAndSync_HoldsGuard(r) ==
    Reset(DropGuard(Wait(BorrowMut(WebGlRender(BorrowMut(r))))))

\* WebGlHybridRenderer::render_and_sync: render under a temporary borrow,
\* gl finish under a second temporary borrow, scene.reset().
WebGlRenderAndSync(r) ==
    Reset(DropGuard(Wait(BorrowMut(DropGuard(WebGlRender(BorrowMut(r)))))))

\* Variant: the readback ends with scene.reset(), as render_and_sync does.
GpuRenderToPixmap_Resets(r) ==
    Op(Reset(Wait(Submit(DropGuard(GpuRender(BorrowMut(r)))))), "render_to_pixmap")

\* HybridRenderer::render_to_pixmap: render into the texture, copy it to a
\* buffer, submit, map_async, poll(wait), copy the rows out.  No scene.reset().
\* The renderer is borrowed for the render call only.
GpuRenderToPixmap(r) ==
    Op(Wait(Submit(DropGuard(GpuRender(BorrowMut(r))))), "render_to_pixmap")

\* gl.read_pixels_with_opt_u8_array: returns once the pixels are there.
ReadPixels(r) == Op([r EXCEPT !.pending = 0], "read_pixels")

\* WebGlHybridRenderer::render_to_pixmap: render, read_pixels, copy, under
\* one guard that lives to the end of the function.  No scene.reset().
WebGlRenderToPixmap(r) ==
    Op(DropGuard(ReadPixels(WebGlRender(BorrowMut(r)))), "render_to_pixmap")

\* Renderer::render_to_pixmap, by implementor.
RenderToPixmap(r) ==
    CASE r.kind = "HybridRenderer" -> GpuRenderToPixmap(r)
      [] r.kind = "WebGlHybridRenderer" -> WebGlRenderToPixmap(r)
      [] OTHER -> CpuRenderToPixmap(r)

\* Renderer::set_paint: the paint later draw operations use.
SetPaint(r, p) == Op([r EXCEPT !.ambient = p], "set_paint")

\* Renderer::fill_rect: one more retained command.
FillRect(r) == Op(Append_(r, 1), "fill_rect")

\* Variant: a state of the wrong type is skipped, the scene is not drawn.
DrawScene_Tolerant(nm, st, r) ==
    IF nm \notin VelloScenes \/ st.type # StateType(nm)
    THEN Op(r, "draw_scene")
    ELSE Op(Append_(r, DrawCmds(nm)), "draw_scene")

\* draw_scene(name, state, r): downcast the state, then <$scene>::draw(state, r).
DrawScene(nm, st, r) ==
    IF nm \notin VelloScenes \/ st.type # StateType(nm)
    THEN [Op(r, "panic") EXCEPT !.panic = TRUE]
    ELSE Op(Append_(r, DrawCmds(nm)), "draw_scene")

\* painter.append_scene(self.scene.clone(), Affine::IDENTITY)
AppendScene(nm, r) == Op(Append_(r, DrawCmds(nm)), "append_scene")

\* CpuSceneRenderer::render_frame
CpuSceneRenderFrame(nm, r) == CpuRenderToPixmap(Flush(AppendScene(nm, Reset(r))))

\* HybridSceneRenderer::render_frame
HybridSceneRenderFrame(nm, r) ==
    Reset(Wait(Submit(GpuRender(AppendScene(nm, r)))))

\* render_hybrid_frame (WebGL)
RenderHybridFrame(nm, r) == Reset(Wait(WebGlRender(AppendScene(nm, r))))

\* SkiaSceneRenderer::render_frame: SkiaImageRenderer::render paints the scene
\* straight onto its surface; the adapter retains no commands.
SkiaSceneRenderFrame(nm, r) == Op([r EXCEPT !.frame = DrawCmds(nm)], "skia_render")

\* The closure each driver hands to BenchRunner::run; a direct caller's
\* closure touches no adapter.
Closure(c, nm, st, r) ==
    CASE c = "vello_cpu" -> CpuRenderToPixmap(Flush(DrawScene(nm, st, r)))
      [] c = "vello_hybrid" -> RenderAndSync(DrawScene(nm, st, r))
      [] c = "vello_hybrid_webgl" -> WebGlRenderAndSync(DrawScene(nm, st, r))
      [] c = "scene_cpu" -> CpuSceneRenderFrame(nm, r)
      [] c = "scene_hybrid" -> HybridSceneRenderFrame(nm, r)
      [] c = "scene_hybrid_webgl" -> RenderHybridFrame(nm, r)
      [] c = "scene_skia" -> SkiaSceneRenderFrame(nm, r)
      [] OTHER -> r

\* Renderer::get_image_source: the CPU adapter wraps the pixmap, the GPU
\* adapters upload it and return the id the upload was given.
GetImageSource(c, imgs) ==
    IF c = "vello_cpu" THEN <<"Pixmap">> ELSE <<"OpaqueId", imgs>>

\* Does <$scene>::setup upload an image (setup_image_grid)?
Uploads(nm) == StateType(nm) = "ImageGridState"

\* Variant: HybridRenderer::get_image_source polls the device before it returns.
UploadImage_Synced(c, r) ==
    CASE c = "vello_cpu" -> Op(r, "get_image_source")
      [] c = "vello_hybrid" ->
           Wait(Submit(DropGuard(Op(BorrowMut(r), "get_image_source"))))
      [] OTHER -> Wait(DropGuard(Op(BorrowMut(r), "get_image_source")))

\* What Renderer::get_image_source does to the adapter: RenderContext wraps
\* the pixmap; HybridRenderer encodes the upload and submits it, and returns
\* without polling the device; WebGlHybridRenderer hands the pixels to the GL
\* context, and returns without gl finish.  Both GPU adapters borrow their
\* renderer for the upload_image call.
UploadImage(c, r) ==
    CASE c = "vello_cpu" -> Op(r, "get_image_source")
      [] c = "vello_hybrid" -> Submit(DropGuard(Op(BorrowMut(r), "get_image_source")))
      [] OTHER ->
           DropGuard([Op(BorrowMut(r), "get_image_source") EXCEPT !.pending = @ + 1])

\* setup_scene(name, r) for a registered name: Some(Box::new(<$scene>::setup(r)))
SetupScene(nm, c, imgs) ==
    IF Uploads(nm)
    THEN [ type |-> "ImageGridState", image |-> GetImageSource(c, imgs) ]
    ELSE [ type |-> "()", image |-> <<>> ]

\* -------------------------------------------------------- the closure f()
\* One call of f(): the adapter changes as the closure says, cost ticks pass.
InvokeF ==
    /\ clock' = clock + cost
    /\ rend' = Closure(caller, name, state, [rend EXCEPT !.ops = <<>>])

\* What a call of f() adds to the history; field is "warm" or "meas".
HCall(h, field) ==
    LET first == h.warm + h.meas = 0
        after == Closure(caller, name, state, [rend EXCEPT !.ops = <<>>])
        drew  == caller \in ProgrammaticDrivers
    IN [h EXCEPT ![field] = @ + 1,
                 !.draws = IF drew THEN @ + 1 ELSE @,
                 !.drawStates = IF drew THEN @ \cup {state} ELSE @,
                 !.cmdsFirst = IF first THEN rend.cmds ELSE @,
                 !.cmdsLast = rend.cmds,
                 !.frameFirst = IF first THEN after.frame ELSE @]

\* Where control goes after a call of f(): a panic in the closure aborts the process.
AfterCall(r, next) == IF r.panic THEN "aborted" ELSE next

\* ---------------------------------------------------------- entry points
\* BenchRunner::new(warmup, iterations) followed by one of the entry points.
StartRun ==
    /\ pc = "idle"
    /\ \E c \in Callers, w \in 0..MaxWarmup, n \in IterChoices, d \in 1..MaxCost :
         /\ Explored(c, w, n, d)
         /\ c \in WebGlDrivers => wasm
         /\ caller' = c
         /\ warmup' = w
         /\ iterations' = n
         /\ cost' = d
         /\ \E ident \in Ids(c) :
              /\ name' = StripPrefix(ident, c)
              /\ hist' = [HistInit EXCEPT
                             !.id = ident,
                             !.before = <<canvas, gpuImages, HYBRID_STATE>>]
         /\ pc' = IF c \in Drivers THEN "lookup" ELSE "clear_marks"
    /\ (caller' \in WebGlDrivers /\ Uploads(name')) => gpuImages < MaxImages
    /\ i' = 0
    /\ clock' = 0
    /\ start' = 0
    /\ iter_start' = 0
    /\ total_ns' = 0
    /\ emit_marks' = FALSE
    /\ statistics' = NoStatistics
    /\ result' = NoResult
    /\ rend' = NoRenderer
    /\ state' = NoState
    /\ gpuImages' = IF wasm THEN gpuImages ELSE 0
    /\ UNCHANGED <<processVars, perfMarks, perfMeasures, canvas>>

\* A screenshot function is called with a scene name.
StartScreenshot ==
    /\ pc = "idle"
    /\ \E s \in Screenshots :
         /\ s \in WebGlScreenshots => wasm
         /\ caller' = s
         /\ name' \in Names(Driver(s))
    /\ (Driver(caller') \in WebGlDrivers /\ Uploads(name')) => gpuImages < MaxImages
    /\ hist' = [HistInit EXCEPT !.id = <<name'>>,
                                !.before = <<canvas, gpuImages, HYBRID_STATE>>]
    /\ pc' = "lookup"
    /\ rend' = NoRenderer
    /\ state' = NoState
    /\ result' = NoResult
    /\ gpuImages' = IF wasm THEN gpuImages ELSE 0
    /\ UNCHANGED <<processVars, warmup, iterations, cost, i, timerVars, perfVars, canvas>>

\* RefCell::borrow_mut on HYBRID_STATE while a guard is alive: BorrowMutError.
AlreadyBorrowed(h) == [h EXCEPT !.already_borrowed = TRUE]

\* init_hybrid(canvas): called from JS on the main thread, between runs.
InitHybrid ==
    /\ wasm
    /\ pc = "idle"
    /\ IF HYBRID_STATE.borrowed
       THEN /\ pc' = "aborted"
            /\ HYBRID_STATE' = AlreadyBorrowed(HYBRID_STATE)
            /\ UNCHANGED <<canvas, gpuImages>>
       ELSE /\ canvas' \in CanvasSizes
            /\ gpuImages' = 0
            /\ HYBRID_STATE' = [HYBRID_STATE EXCEPT !.made_for = canvas']
            /\ pc' = pc
    /\ UNCHANGED <<fixedVars, configVars, i, timerVars, result, perfVars, rend,
                   state, hist>>

\* ------------------------------------------------- direct calls of the API
\* A Box<dyn Any> that no scene's setup produced.
ForeignState == [ type |-> "u32", image |-> <<>> ]

\* The values a caller can hand to draw_scene: what setup_scene returned for
\* some registered name, or any other value.
DrawSceneStates ==
    {SetupScene(sn, "vello_cpu", 0) : sn \in VelloScenes} \cup {ForeignState}

\* draw_scene(nm, st, &mut ctx) on a fresh adapter, outside any run.
CallDrawScene ==
    /\ pc = "idle"
    /\ \E nm \in VelloScenes \cup {UnknownName}, st \in DrawSceneStates :
         /\ caller' = "draw_scene"
         /\ name' = nm
         /\ state' = st
         /\ rend' = DrawScene(nm, st, NoRenderer)
    /\ pc' = AfterCall(rend', "done")
    /\ UNCHANGED <<processVars, warmup, iterations, cost, i, timerVars, result, perfVars,
                   gpuImages, canvas, hist>>

\* <R as Renderer>::new(width, height, num_threads, level, render_mode):
\* RenderContext puts all three into its RenderSettings; HybridRenderer panics
\* unless num_threads is 0, puts level into vello_hybrid::RenderSettings and
\* binds render_mode to `_`; WebGlHybridRenderer panics.
RendererNew(b, nt, lv, rm) ==
    CASE b = "RenderContext" ->
           [NoRenderer EXCEPT !.kind = b,
                !.settings = [num_threads |-> nt, level |-> lv, render_mode |-> rm]]
      [] b = "HybridRenderer" ->
           IF nt # 0
           THEN [NoRenderer EXCEPT !.kind = b, !.panic = TRUE]
           ELSE [NoRenderer EXCEPT !.kind = b,
                     !.settings = [num_threads |-> 0, level |-> lv,
                                   render_mode |-> NoValue]]
      [] OTHER -> [NoRenderer EXCEPT !.kind = b, !.panic = TRUE]

\* WebGlHybridRenderer::from_state(width, height, renderer): a fresh Scene
\* around the WebGL renderer of HYBRID_STATE.
FromState == [NoRenderer EXCEPT !.kind = "WebGlHybridRenderer"]

\* A caller constructs an adapter through the trait and then uses it.
CallRendererNew ==
    /\ pc = "idle"
    /\ \E b \in Backends, nt \in 0..MaxThreads, lv \in Levels, rm \in RenderModes :
         /\ b = "HybridRenderer" => ~wasm
         /\ b = "WebGlHybridRenderer" => wasm
         /\ rend' = RendererNew(b, nt, lv, rm)
         /\ hist' = [hist EXCEPT !.call = <<b, nt, lv, rm>>, !.built = @ + 1]
    /\ caller' = "Renderer::new"
    /\ pc' = AfterCall(rend', "session")
    /\ UNCHANGED <<processVars, warmup, iterations, cost, name, i, timerVars, result,
                   perfVars, state, gpuImages, canvas>>

\* A caller on wasm32 wraps the shared WebGL renderer, as the WebGL drivers do.
CallFromState ==
    /\ pc = "idle"
    /\ wasm
    /\ canvas # NoCanvas
    /\ rend' = FromState
    /\ hist' = [hist EXCEPT !.built = @ + 1]
    /\ caller' = "from_state"
    /\ pc' = "session"
    /\ UNCHANGED <<processVars, warmup, iterations, cost, name, i, timerVars, result,
                   perfVars, state, gpuImages, canvas>>

\* set_paint(p) then fill_rect(..) on the adapter.
SessionDraw ==
    /\ pc = "session"
    /\ i < MaxCalls
    /\ \E p \in Paints : rend' = FillRect(SetPaint(rend, p))
    /\ i' = i + 1
    /\ hist' = [hist EXCEPT !.beforeRead = <<>>, !.readback = <<>>]
    /\ UNCHANGED <<processVars, pc, configVars, timerVars, result, perfVars, state,
                   gpuImages, canvas>>

\* render_to_pixmap(&mut pixmap) on the adapter.
SessionRenderToPixmap ==
    /\ pc = "session"
    /\ i < MaxCalls
    /\ rend' = RenderToPixmap(rend)
    /\ i' = i + 1
    /\ hist' = [hist EXCEPT
                   !.beforeRead = IF hist.readback = <<>>
                                  THEN <<rend.cmds, rend.ambient>> ELSE @,
                   !.readback = Append(@, rend'.frame)]
    /\ UNCHANGED <<processVars, pc, configVars, timerVars, result, perfVars, state,
                   gpuImages, canvas>>

\* render_and_sync() on a GPU adapter.
SessionRenderAndSync ==
    /\ pc = "session"
    /\ i < MaxCalls
    /\ rend.kind # "RenderContext"
    /\ rend' = IF rend.kind = "HybridRenderer"
               THEN RenderAndSync(rend) ELSE WebGlRenderAndSync(rend)
    /\ i' = i + 1
    /\ hist' = [hist EXCEPT !.beforeRead = <<>>, !.readback = <<>>]
    /\ UNCHANGED <<processVars, pc, configVars, timerVars, result, perfVars, state,
                   gpuImages, canvas>>

\* The caller drops the adapter.
SessionEnd ==
    /\ pc = "session"
    /\ pc' = "done"
    /\ UNCHANGED <<processVars, configVars, i, timerVars, result, perfVars, sceneVars, hist>>

\* ------------------------------------------------------------ the drivers
\* Variant: the driver does not look the name up before it builds the backend.
Absent_PlatformOnly(c, nm) ==
    \/ c \in NativeOnlyDrivers /\ wasm
    \/ c \in WebGlDrivers /\ canvas = NoCanvas

\* The early returns of a driver: the platform has no such backend, the name
\* is not registered, or (WebGL) init_hybrid has not been called.
Absent(c, nm) ==
    \/ c \in NativeOnlyDrivers /\ wasm
    \/ nm \notin Registry(c)
    \/ c \in WebGlDrivers /\ canvas = NoCanvas

\* Does the driver get as far as get_scenes()?  The replay drivers do, unless
\* the platform has no such backend.
CallsGetScenes(c) == c \in ReplayDrivers /\ ~(c \in NativeOnlyDrivers /\ wasm)

\* Does the entry point get as far as HYBRID_STATE.with(|c| c.borrow_mut())?
\* The WebGL ones do, once the name was found.
BorrowsState(c, nm) == c \in WebGlDrivers /\ nm \in Registry(c)

\* RefCell::borrow_mut on HYBRID_STATE, the guard being kept.
BorrowMutState(h) == [h EXCEPT !.borrowed = TRUE]

\* Variant: the guard on HYBRID_STATE outlives the entry point.
DropStateGuard_Leaks(h) == h

\* The RefMut on HYBRID_STATE goes out of scope.
DropStateGuard(h) == [h EXCEPT !.borrowed = FALSE]

\* The early returns of a driver, and for the WebGL entry points the borrow
\* of HYBRID_STATE that is kept until the entry point returns.
Lookup ==
    /\ pc = "lookup"
    /\ IF BorrowsState(Driver(caller), name) /\ HYBRID_STATE.borrowed
       THEN /\ pc' = "aborted"
            /\ HYBRID_STATE' = AlreadyBorrowed(HYBRID_STATE)
            /\ UNCHANGED result
       ELSE IF Absent(Driver(caller), name)
       THEN /\ result' = AbsentResult
            /\ pc' = "done"
            /\ UNCHANGED HYBRID_STATE
       ELSE /\ result' = result
            /\ pc' = "new"
            /\ HYBRID_STATE' = IF BorrowsState(Driver(caller), name)
                               THEN BorrowMutState(HYBRID_STATE) ELSE HYBRID_STATE
    /\ SCENES' = IF CallsGetScenes(Driver(caller)) /\ name # NoValue
                 THEN GetOrInit(SCENES, sceneFiles) ELSE SCENES
    /\ UNCHANGED <<wasm, rb, sceneFiles, reg, dr, configVars, i, timerVars, perfVars,
                   sceneVars, hist>>

\* A driver that does not touch HYBRID_STATE.
KeepCanvas(cv, h, imgs) == [ canvas |-> cv, state |-> h, images |-> imgs, created |-> 0 ]

\* Variant: the canvas is resized and the renderer of the old context is kept.
EnsureCanvasSize_KeepsRenderer(cv, h, imgs, size) ==
    [ canvas |-> size, state |-> h, images |-> imgs, created |-> 0 ]

\* ensure_canvas_size(state, width, height): when the canvas has another size,
\* set_width / set_height (which resets the GL context and with it everything
\* uploaded) and a new WebGlRenderer for the fresh context.
EnsureCanvasSize(cv, h, imgs, size) ==
    IF cv # size
    THEN [ canvas |-> size, state |-> [h EXCEPT !.made_for = size], images |-> 0,
           created |-> 1 ]
    ELSE KeepCanvas(cv, h, imgs)

\* Variant: the driver never calls setup_scene.
AfterNew_NoSetup(c) == "clear_marks"

\* Where a driver goes once its adapter exists: programmatic scenes are set up first.
AfterNew(c) == IF c \in ProgrammaticDrivers THEN "setup" ELSE "clear_marks"

\* What follows the construction and the setup: run_with_timer in a driver,
\* the one frame in a screenshot function.
Ready(c, next) == IF c \in Screenshots /\ next = "clear_marks" THEN "frame" ELSE next

\* Renderer::new / WebGlHybridRenderer::from_state after ensure_canvas_size /
\* CpuSceneRenderer::new / HybridSceneRenderer::new / SkiaSceneRenderer::new
NewRenderer ==
    /\ pc = "new"
    /\ rend' = NoRenderer
    /\ LET e == IF Driver(caller) \in WebGlDrivers
                THEN EnsureCanvasSize(canvas, HYBRID_STATE, gpuImages, SceneSize(name))
                ELSE KeepCanvas(canvas, HYBRID_STATE, gpuImages)
       IN /\ canvas' = e.canvas
          /\ HYBRID_STATE' = e.state
          /\ gpuImages' = e.images
          /\ hist' = [hist EXCEPT !.built = @ + 1, !.created = @ + e.created]
    /\ pc' = Ready(caller, AfterNew(Driver(caller)))
    /\ UNCHANGED <<fixedVars, configVars, i, timerVars, result, perfVars, state>>

\* let state = setup_scene(name, &mut ctx).expect("scene not found in setup")
Setup ==
    /\ pc = "setup"
    /\ state' = SetupScene(name, Driver(caller), gpuImages)
    /\ gpuImages' = IF Uploads(name) /\ Driver(caller) # "vello_cpu"
                    THEN gpuImages + 1 ELSE gpuImages
    /\ hist' = [hist EXCEPT !.setups = @ + 1,
                            !.setupAt = <<hist.warm, hist.meas, hist.timing>>,
                            !.setupState = state']
    /\ rend' = IF Uploads(name) THEN UploadImage(Driver(caller), rend) ELSE rend
    /\ pc' = AfterCall(rend', Ready(caller, "clear_marks"))
    /\ UNCHANGED <<processVars, configVars, i, timerVars, result, perfVars, canvas>>

\* The one frame of a screenshot function: render_frame() of the scene
\* renderer (for render_scene_hybrid the first statement of into_rgba), for
\* the programmatic scenes draw_scene and then flush + render_to_pixmap (CPU),
\* render_to_pixmap (wgpu) or render_and_sync (WebGL).
Frame(c, nm, st, r) ==
    CASE c = "render_scene_cpu" -> CpuSceneRenderFrame(nm, r)
      [] c = "render_scene_hybrid" -> HybridSceneRenderFrame(nm, r)
      [] c = "render_scene_skia" -> SkiaSceneRenderFrame(nm, r)
      [] c = "render_vello_scene_cpu" -> CpuRenderToPixmap(Flush(DrawScene(nm, st, r)))
      [] c = "render_vello_scene_hybrid" -> GpuRenderToPixmap(DrawScene(nm, st, r))
      [] c = "render_hybrid_once" -> RenderHybridFrame(nm, r)
      [] c = "render_vello_hybrid_once" -> WebGlRenderAndSync(DrawScene(nm, st, r))

\* What follows the frame: HybridSceneRenderer::into_rgba copies the texture
\* to a buffer, submits, polls, maps the buffer and polls again; the others
\* take the pixels from memory the frame has already written.
IntoRgba(c, r) ==
    IF c = "render_scene_hybrid"
    THEN Wait(Op(Wait(Submit(Op(r, "copy_texture_to_buffer"))), "map_async"))
    ELSE r

\* Some(ScreenshotResult { width, height, rgba }) / true
ScreenshotResult(c, nm) ==
    [ kind |-> "screenshot", width |-> SceneSize(nm)[1], height |-> SceneSize(nm)[2] ]

RenderOneFrame ==
    /\ pc = "frame"
    /\ rend' = Frame(caller, name, state, [rend EXCEPT !.ops = <<>>])
    /\ hist' = [hist EXCEPT
                   !.frames = @ + 1,
                   !.frameOps = rend'.ops,
                   !.closureOps = Closure(Driver(caller), name, state,
                                          [rend EXCEPT !.ops = <<>>]).ops]
    /\ pc' = AfterCall(rend', "into_rgba")
    /\ UNCHANGED <<processVars, configVars, i, timerVars, result, perfVars, state,
                   gpuImages, canvas>>

ReturnScreenshot ==
    /\ pc = "into_rgba"
    /\ rend' = IntoRgba(caller, rend)
    /\ result' = ScreenshotResult(caller, name)
    /\ pc' = "done"
    /\ UNCHANGED <<processVars, configVars, i, timerVars, perfVars, state,
                   gpuImages, canvas, hist>>

\* The device finishes the work it was given, whenever it gets to it.
DeviceFinishes ==
    /\ rend.pending > 0
    /\ rend' = [rend EXCEPT !.pending = 0]
    /\ UNCHANGED <<processVars, pc, configVars, i, timerVars, result, perfVars, state,
                   gpuImages, canvas, hist>>

\* --------------------------------------------------------- run_with_timer
ClearMarks ==
    /\ pc = "clear_marks"
    /\ perfMarks' = ClearMarksEffect(wasm, perfMarks)
    /\ hist' = [hist EXCEPT !.clearedMarks = TRUE]
    /\ pc' = "clear_measures"
    /\ UNCHANGED <<sceneVars, processVars, configVars, i, timerVars, result, perfMeasures>>

ClearMeasures ==
    /\ pc = "clear_measures"
    /\ perfMeasures' = ClearMeasuresEffect(wasm, perfMeasures)
    /\ hist' = [hist EXCEPT !.clearedMeasures = TRUE]
    /\ pc' = "mark_warmup_start"
    /\ UNCHANGED <<sceneVars, processVars, configVars, i, timerVars, result, perfMarks>>

MarkWarmupStart ==
    /\ pc = "mark_warmup_start"
    /\ Mark(<<"warmup:start">>)
    /\ hist' = HMark(hist, <<"warmup:start">>)
    /\ i' = 0
    /\ pc' = "warmup"
    /\ UNCHANGED <<sceneVars, processVars, configVars, timerVars, result>>

\* Variant: the inclusive range 0..=n.
InRange_Inclusive(idx, n) == idx <= n

\* for _ in 0..n: is the loop variable still in the range?
InRange(idx, n) == idx < n

\* BenchRunner::warmup: for _ in 0..self.warmup { f() }
WarmupCall ==
    /\ pc = "warmup"
    /\ InRange(i, warmup)
    /\ InvokeF
    /\ i' = i + 1
    /\ hist' = HCall(hist, "warm")
    /\ pc' = AfterCall(rend', "warmup")
    /\ UNCHANGED <<state, gpuImages, canvas, processVars, configVars, start, iter_start,
                   total_ns, emit_marks, statistics, result, perfVars>>

MarkWarmupEnd ==
    /\ pc = "warmup"
    /\ ~InRange(i, warmup)
    /\ Mark(<<"warmup:end">>)
    /\ hist' = HMark(hist, <<"warmup:end">>)
    /\ pc' = "span_warmup"
    /\ UNCHANGED <<sceneVars, processVars, configVars, i, timerVars, result>>

\* Variant: run_with_timer goes from the warm-up span straight to measurement.
SpanWarmup_SkipsCallback ==
    /\ pc = "span_warmup"
    /\ MeasureSpan
    /\ hist' = HSpan(hist)
    /\ pc' = "mark_measure_start"
    /\ UNCHANGED <<sceneVars, processVars, configVars, i, timerVars, result>>

SpanWarmup ==
    /\ pc = "span_warmup"
    /\ MeasureSpan
    /\ hist' = HSpan(hist)
    /\ pc' = "on_calibrated"
    /\ UNCHANGED <<sceneVars, processVars, configVars, i, timerVars, result>>

OnCalibrated ==
    /\ pc = "on_calibrated"
    /\ hist' = [hist EXCEPT !.cb = @ + 1, !.cbAt = <<hist.warm, hist.meas>>]
    /\ pc' = "mark_measure_start"
    /\ UNCHANGED <<sceneVars, processVars, configVars, i, timerVars, result, perfVars>>

MarkMeasureStart ==
    /\ pc = "mark_measure_start"
    /\ Mark(<<"measure:start">>)
    /\ hist' = [HMark(hist, <<"measure:start">>) EXCEPT !.tMeasureStart = clock]
    /\ pc' = IF PerIteration(caller) THEN "pi_init" ELSE "m_now"
    /\ UNCHANGED <<sceneVars, processVars, configVars, i, timerVars, result>>

\* ------------------------------------------------------ BenchRunner::measure
\* Variant: the loop is timed from the entry of the run, not from its own start.
MeasureNow_StaleStart ==
    /\ pc = "m_now"
    /\ start' = 0
    /\ i' = 0
    /\ hist' = [hist EXCEPT !.timing = TRUE]
    /\ pc' = "m_loop"
    /\ UNCHANGED <<sceneVars, processVars, configVars, clock, iter_start, total_ns, emit_marks,
                   statistics, result, perfVars>>

MeasureNow ==
    /\ pc = "m_now"
    /\ start' = clock
    /\ i' = 0
    /\ hist' = HNow(hist)
    /\ pc' = "m_loop"
    /\ UNCHANGED <<sceneVars, processVars, configVars, clock, iter_start, total_ns, emit_marks,
                   statistics, result, perfVars>>

MeasureCall ==
    /\ pc = "m_loop"
    /\ InRange(i, iterations)
    /\ InvokeF
    /\ i' = i + 1
    /\ hist' = HCall(hist, "meas")
    /\ pc' = AfterCall(rend', "m_loop")
    /\ UNCHANGED <<state, gpuImages, canvas, processVars, configVars, start, iter_start,
                   total_ns, emit_marks, statistics, result, perfVars>>

MeasureElapsed ==
    /\ pc = "m_loop"
    /\ ~InRange(i, iterations)
    /\ statistics' = FromMeasurement(ElapsedNs(clock, start), iterations)
    /\ hist' = [HElapsed(hist) EXCEPT !.handed = <<ElapsedNs(clock, start), iterations>>]
    /\ pc' = "mark_measure_end"
    /\ UNCHANGED <<sceneVars, processVars, configVars, i, clock, start, iter_start, total_ns,
                   emit_marks, result, perfVars>>

\* -------------------------- BenchRunner::measure_per_iteration_with_frame_wait
\* Variant: the threshold itself is excluded.
EmitMarks_Strict(total_iters) == total_iters < MAX_MARKED_ITERS

\* let emit_marks = total_iters <= MAX_MARKED_ITERS
EmitMarks(total_iters) == total_iters <= MAX_MARKED_ITERS

\* Variant: the start mark is never emitted.
BodyEntry_NoStartMark(em) == "pi_now"

\* where the loop body starts
BodyEntry(em) == IF em THEN "pi_mark" ELSE "pi_now"

PerIterInit ==
    /\ pc = "pi_init"
    /\ emit_marks' = EmitMarks(iterations)
    /\ total_ns' = 0
    /\ i' = 0
    /\ pc' = IF InRange(0, iterations) THEN BodyEntry(emit_marks') ELSE "pi_stats"
    /\ UNCHANGED <<sceneVars, processVars, configVars, clock, start, iter_start, statistics,
                   result, perfVars, hist>>

PerIterMarkStart ==
    /\ pc = "pi_mark"
    /\ Mark(<<"iter", i>>)
    /\ hist' = [HMark(hist, <<"iter", i>>) EXCEPT !.startMarks = @ + 1]
    /\ pc' = "pi_now"
    /\ UNCHANGED <<sceneVars, processVars, configVars, i, timerVars, result>>

\* Variant: iter_start is taken on the first iteration only.
PerIterNow_OnlyFirst ==
    /\ pc = "pi_now"
    /\ iter_start' = IF i = 0 THEN clock ELSE iter_start
    /\ hist' = HNow(hist)
    /\ pc' = "pi_f"
    /\ UNCHANGED <<sceneVars, processVars, configVars, i, clock, start, total_ns, emit_marks,
                   statistics, result, perfVars>>

PerIterNow ==
    /\ pc = "pi_now"
    /\ iter_start' = clock
    /\ hist' = HNow(hist)
    /\ pc' = "pi_f"
    /\ UNCHANGED <<sceneVars, processVars, configVars, i, clock, start, total_ns, emit_marks,
                   statistics, result, perfVars>>

PerIterCall ==
    /\ pc = "pi_f"
    /\ InvokeF
    /\ hist' = HCall(hist, "meas")
    /\ pc' = AfterCall(rend', "pi_elapsed")
    /\ UNCHANGED <<state, gpuImages, canvas, processVars, configVars, i, start, iter_start,
                   total_ns, emit_marks, statistics, result, perfVars>>

PerIterElapsed ==
    /\ pc = "pi_elapsed"
    /\ total_ns' = total_ns + ElapsedNs(clock, iter_start)
    /\ hist' = HElapsed(hist)
    /\ pc' = IF emit_marks THEN "pi_mark_end" ELSE "pi_wait"
    /\ UNCHANGED <<sceneVars, processVars, configVars, i, clock, start, iter_start, emit_marks,
                   statistics, result, perfVars>>

PerIterMarkEnd ==
    /\ pc = "pi_mark_end"
    /\ Mark(<<"iter:end", i>>)
    /\ hist' = [HMark(hist, <<"iter:end", i>>) EXCEPT !.endMarks = @ + 1]
    /\ pc' = "pi_span"
    /\ UNCHANGED <<sceneVars, processVars, configVars, i, timerVars, result>>

PerIterSpan ==
    /\ pc = "pi_span"
    /\ MeasureSpan
    /\ hist' = [HSpan(hist) EXCEPT !.iterSpans = @ + 1]
    /\ pc' = "pi_wait"
    /\ UNCHANGED <<sceneVars, processVars, configVars, i, timerVars, result>>

\* Variant: a frame wait after every iteration, the last one included.
NeedsWait_Always(idx, total_iters) == TRUE

\* if i + 1 < total_iters { timer.wait_one_frame() }
NeedsWait(idx, total_iters) == idx + 1 < total_iters

PerIterWait ==
    /\ pc = "pi_wait"
    /\ NeedsWait(i, iterations)
    /\ clock' = clock + WaitOneFrame(wasm)
    /\ hist' = [hist EXCEPT !.waits = @ + 1, !.waitAt = <<hist.warm, hist.meas>>,
                            !.timedWaits = IF hist.timing THEN @ + 1 ELSE @]
    /\ i' = i + 1
    /\ pc' = IF InRange(i + 1, iterations) THEN BodyEntry(emit_marks) ELSE "pi_stats"
    /\ UNCHANGED <<sceneVars, processVars, configVars, start, iter_start, total_ns, emit_marks,
                   statistics, result, perfVars>>

PerIterNoWait ==
    /\ pc = "pi_wait"
    /\ ~NeedsWait(i, iterations)
    /\ i' = i + 1
    /\ pc' = IF InRange(i + 1, iterations) THEN BodyEntry(emit_marks) ELSE "pi_stats"
    /\ UNCHANGED <<sceneVars, processVars, configVars, timerVars, result, perfVars, hist>>

PerIterStats ==
    /\ pc = "pi_stats"
    /\ statistics' = FromMeasurement(total_ns, iterations)
    /\ hist' = [hist EXCEPT !.handed = <<total_ns, iterations>>]
    /\ pc' = "mark_measure_end"
    /\ UNCHANGED <<sceneVars, processVars, configVars, i, clock, start, iter_start, total_ns,
                   emit_marks, result, perfVars>>

\* ------------------------------------------------ run_with_timer, continued
MarkMeasureEnd ==
    /\ pc = "mark_measure_end"
    /\ Mark(<<"measure:end">>)
    /\ hist' = [HMark(hist, <<"measure:end">>) EXCEPT !.tMeasureEnd = clock]
    /\ pc' = "span_measure"
    /\ UNCHANGED <<sceneVars, processVars, configVars, i, timerVars, result>>

SpanMeasure ==
    /\ pc = "span_measure"
    /\ MeasureSpan
    /\ hist' = HSpan(hist)
    /\ pc' = "result"
    /\ UNCHANGED <<sceneVars, processVars, configVars, i, timerVars, result>>

BuildResult ==
    /\ pc = "result"
    /\ result' = [ kind |-> "some", category |-> caller, name |-> name,
                   statistics |-> statistics ]
    /\ pc' = "done"
    /\ UNCHANGED <<sceneVars, processVars, configVars, i, timerVars, perfVars, hist>>

\* A process is followed past a threshold-sized run where the run left the
\* process as it found it (the default timer records nothing); with the
\* Performance timeline the exploration ends at the run's result.
Followed == iterations > MaxIters => ~wasm

\* The entry point returns to its caller: the BenchRunner, the closure, the
\* adapter and the scene state of the run are dropped.  The Performance
\* timeline and HYBRID_STATE outlive the run.
Return ==
    /\ pc = "done"
    /\ Followed
    /\ pc' = "idle"
    /\ caller' = "run"
    /\ warmup' = 0
    /\ iterations' = 0
    /\ cost' = 1
    /\ name' = NoValue
    /\ i' = 0
    /\ clock' = 0
    /\ start' = 0
    /\ iter_start' = 0
    /\ total_ns' = 0
    /\ emit_marks' = FALSE
    /\ statistics' = NoStatistics
    /\ result' = NoResult
    /\ rend' = NoRenderer
    /\ state' = NoState
    /\ hist' = HistInit
    /\ HYBRID_STATE' = DropStateGuard(HYBRID_STATE)
    /\ UNCHANGED <<fixedVars, perfVars, gpuImages, canvas>>

Next ==
    \/ StartRun
    \/ StartScreenshot
    \/ RenderOneFrame
    \/ ReturnScreenshot
    \/ InitHybrid
    \/ Lookup
    \/ NewRenderer
    \/ Setup
    \/ DeviceFinishes
    \/ ClearMarks
    \/ ClearMeasures
    \/ MarkWarmupStart
    \/ WarmupCall
    \/ MarkWarmupEnd
    \/ SpanWarmup
    \/ OnCalibrated
    \/ MarkMeasureStart
    \/ MeasureNow
    \/ MeasureCall
    \/ MeasureElapsed
    \/ PerIterInit
    \/ PerIterMarkStart
    \/ PerIterNow
    \/ PerIterCall
    \/ PerIterElapsed
    \/ PerIterMarkEnd
    \/ PerIterSpan
    \/ PerIterWait
    \/ PerIterNoWait
    \/ PerIterStats
    \/ MarkMeasureEnd
    \/ SpanMeasure
    \/ BuildResult
    \/ Return
    \/ CallDrawScene
    \/ CallRendererNew
    \/ CallFromState
    \/ SessionDraw
    \/ SessionRenderToPixmap
    \/ SessionRenderAndSync
    \/ SessionEnd

Spec == Init /\ [][Next]_vars

\* ------------------------------------------------------- pixel readback
\* The targets read back: every width up to MaxWidth (the row is a multiple
\* of the alignment at 64 and 128), the widths of the registered scenes, a
\* device's largest textures and u16::MAX; every height up to MaxHeight.
Widths == (1..MaxWidth) \cup {1024, 1920, 8192, 16384, 65535}
Heights == 1..MaxHeight

\* HybridSceneRenderer::into_rgba and HybridRenderer::render_to_pixmap
ReadbackFns == {"into_rgba", "render_to_pixmap"}

\* Variant: align_to rounds down.
AlignTo_Down(value, alignment) == (value \div alignment) * alignment

\* align_to(value, alignment): (value + alignment - 1) / alignment * alignment
AlignTo(value, alignment) == ((value + alignment - 1) \div alignment) * alignment

\* u32::next_multiple_of(rhs)
NextMultipleOf(value, rhs) ==
    IF value % rhs = 0 THEN value ELSE value + (rhs - (value % rhs))

Min(a, b) == IF a < b THEN a ELSE b

\* The rows the copy loop visits: into_rgba counts 0..height; render_to_pixmap
\* zips the buffer's chunks_exact(bytes_per_row) with the pixmap's
\* chunks_exact_mut(width * 4), the pixmap being width x height.
Rows(r) ==
    IF r.fn = "into_rgba"
    THEN r.height
    ELSE Min(r.size \div r.bytes_per_row,
             (r.width * r.height * BYTES_PER_PIXEL) \div (r.width * BYTES_PER_PIXEL))

\* A readback of a width x height target begins; the target is native.
ReadbackInit ==
    /\ wasm = FALSE
    /\ NoRun
    /\ rb \in {[NoReadback EXCEPT !.fn = f, !.width = w, !.height = h, !.pc = "stride"] :
                 f \in ReadbackFns, w \in Widths, h \in Heights}
    /\ sceneFiles \in ProcessArchives
    /\ SCENES = NoScenes
    /\ reg = NoCalls
    /\ dr = NoDraw

\* let bytes_per_row = align_to(width * 4, 256)            (into_rgba)
\* let bytes_per_row = (u32::from(width) * 4).next_multiple_of(256)
\* and the readback buffer of bytes_per_row * height bytes.
ComputeStride ==
    /\ rb.pc = "stride"
    /\ LET bpr == IF rb.fn = "into_rgba"
                  THEN AlignTo(rb.width * BYTES_PER_PIXEL, COPY_BYTES_PER_ROW_ALIGNMENT)
                  ELSE NextMultipleOf(rb.width * BYTES_PER_PIXEL,
                                      COPY_BYTES_PER_ROW_ALIGNMENT)
       IN rb' = [rb EXCEPT !.bytes_per_row = bpr, !.size = bpr * rb.height,
                           !.pc = "copy"]
    /\ UNCHANGED <<runVars, dr, sceneFiles, SCENES, reg>>

\* One turn of the copy loop: the first width * 4 bytes of the padded row go
\* to the end of the destination; a range past the buffer's end panics.
CopyRow ==
    /\ rb.pc = "copy"
    /\ rb.row < Rows(rb)
    /\ LET first == rb.row * rb.bytes_per_row
           row_bytes == rb.width * BYTES_PER_PIXEL
       IN IF first + row_bytes > rb.size \/ row_bytes > rb.bytes_per_row
          THEN rb' = [rb EXCEPT !.pc = "panic"]
          ELSE rb' = [rb EXCEPT !.out = Append(@, [first |-> first, len |-> row_bytes]),
                                !.row = @ + 1]
    /\ UNCHANGED <<runVars, dr, sceneFiles, SCENES, reg>>

\* The loop is over: the buffer is unmapped, the destination is complete.
ReadbackDone ==
    /\ rb.pc = "copy"
    /\ rb.row = Rows(rb)
    /\ rb' = [rb EXCEPT !.pc = "done"]
    /\ UNCHANGED <<runVars, dr, sceneFiles, SCENES, reg>>

ReadbackNext ==
    \/ ComputeStride
    \/ CopyRow
    \/ ReadbackDone

ReadbackSpec == ReadbackInit /\ [][ReadbackNext]_vars

\* --------------------------------------------------- the scene registries
\* The archives a build may embed, in the order build.rs lists them (sorted
\* by file name), each parsing or not.
ArchiveNames == <<"archive_scene", "blend_scene", "clip_scene", "dash_scene">>
Builds ==
    {[k \in 1..MaxArchives |-> [name |-> ArchiveNames[k], ok |-> oks[k]]] :
        oks \in [1..MaxArchives -> BOOLEAN]}

\* get_vello_scenes(): vec![<$scene as VelloScene>::info(), ..], built anew by each call.
GetVelloScenes ==
    << [name |-> "filled_rects", width |-> SceneSize("filled_rects")[1],
        height |-> SceneSize("filled_rects")[2]],
       [name |-> "tiled_flowers_100", width |-> SceneSize("tiled_flowers_100")[1],
        height |-> SceneSize("tiled_flowers_100")[2]] >>

\* A process starts: SCENES is empty, no thread has asked for a registry.
RegistryInit ==
    /\ wasm \in BOOLEAN
    /\ NoRun
    /\ rb = NoReadback
    /\ sceneFiles \in Builds
    /\ SCENES = NoScenes
    /\ reg = NoCalls
    /\ dr = NoDraw

\* Variant: every thread that finds SCENES empty runs the initializer.
MayInitialize_Racy(once) == ~once.init

\* OnceLock::get_or_init: the initializer runs in the one thread that finds
\* the cell empty with nobody initializing it.
MayInitialize(once) == ~once.init /\ once.owner = NoValue

\* get_scenes() finds SCENES set and returns the slice.
GetScenesSet(t) ==
    /\ reg.tpc[t] = "idle"
    /\ reg.calls[t] < MaxGets
    /\ SCENES.init
    /\ reg' = [reg EXCEPT !.calls[t] = @ + 1,
                          !.returned = @ \cup {SCENES.value}]
    /\ UNCHANGED <<runVars, dr, rb, sceneFiles, SCENES>>

\* get_scenes() finds SCENES empty and becomes the initializer.
GetScenesInit(t) ==
    /\ reg.tpc[t] = "idle"
    /\ reg.calls[t] < MaxGets
    /\ MayInitialize(SCENES)
    /\ SCENES' = [SCENES EXCEPT !.owner = t]
    /\ reg' = [reg EXCEPT !.tpc[t] = "loading", !.idx = 1, !.acc = <<>>]
    /\ UNCHANGED <<runVars, dr, rb, sceneFiles>>

\* get_scenes() finds another thread initializing and waits for it.
GetScenesWait(t) ==
    /\ reg.tpc[t] = "idle"
    /\ reg.calls[t] < MaxGets
    /\ ~SCENES.init
    /\ ~MayInitialize(SCENES)
    /\ reg' = [reg EXCEPT !.tpc[t] = "waiting"]
    /\ UNCHANGED <<runVars, dr, rb, sceneFiles, SCENES>>

\* The initializer handles one entry of SCENE_FILES: load_archive_from_zip,
\* then a SceneItem, or a line on the console / stderr and nothing.
LoadArchive(t) ==
    /\ reg.tpc[t] = "loading"
    /\ reg.idx <= Len(sceneFiles)
    /\ LET f == sceneFiles[reg.idx]
       IN reg' = [reg EXCEPT !.acc = Loaded(@, f),
                             !.loads = Append(@, reg.idx),
                             !.log = IF f.ok THEN @ ELSE Append(@, f.name),
                             !.idx = @ + 1]
    /\ UNCHANGED <<runVars, dr, rb, sceneFiles, SCENES>>

\* .collect(): the initializer stores the vector in the cell, and get_scenes
\* returns what the cell holds.
Collect(t) ==
    /\ reg.tpc[t] = "loading"
    /\ reg.idx > Len(sceneFiles)
    /\ SCENES' = [init |-> TRUE, owner |-> NoValue, value |-> reg.acc]
    /\ reg' = [reg EXCEPT !.tpc[t] = "idle", !.calls[t] = @ + 1,
                          !.returned = @ \cup {SCENES'.value}]
    /\ UNCHANGED <<runVars, dr, rb, sceneFiles>>

\* The initializer is done: a waiting thread returns the slice.
Wake(t) ==
    /\ reg.tpc[t] = "waiting"
    /\ SCENES.init
    /\ reg' = [reg EXCEPT !.tpc[t] = "idle", !.calls[t] = @ + 1,
                          !.returned = @ \cup {SCENES.value}]
    /\ UNCHANGED <<runVars, dr, rb, sceneFiles, SCENES>>

\* get_vello_scenes() in thread t.
CallGetVelloScenes(t) ==
    /\ reg.tpc[t] = "idle"
    /\ reg.calls[t] < MaxGets
    /\ reg' = [reg EXCEPT !.calls[t] = @ + 1, !.vello = @ \cup {GetVelloScenes}]
    /\ UNCHANGED <<runVars, dr, rb, sceneFiles, SCENES>>

RegistryNext ==
    \E t \in Threads :
        \/ GetScenesSet(t)
        \/ GetScenesInit(t)
        \/ GetScenesWait(t)
        \/ LoadArchive(t)
        \/ Collect(t)
        \/ Wake(t)
        \/ CallGetVelloScenes(t)

RegistrySpec == RegistryInit /\ [][RegistryNext]_vars

\* ------------------------------------------- programmatic scene routines
\* vello_scenes: the registration table, setup_scene / draw_scene and the
\* draw routines of every registered scene, one step per loop iteration.

\* Successive draw calls made with one setup state.
MaxDraws == 2
\* draw_paths_and_images called with iterations up to MaxRounds and
\* paths_per_batch up to MaxBatch, besides the registered scene.
MaxRounds == 3
MaxBatch == 4

\* register_vello_scenes!( ($name_str, $scene), .. ): the arms of the `match
\* name` in setup_scene and draw_scene, in the order of the invocation.
Registration ==
    << [name_str |-> "filled_rects", scene |-> "FilledRects"],
       [name_str |-> "tiled_flowers_100", scene |-> "TiledFlowers100"],
       [name_str |-> "tiled_flowers_300", scene |-> "TiledFlowers300"],
       [name_str |-> "tiled_flowers_1000", scene |-> "TiledFlowers1000"],
       [name_str |-> "tiled_flowers_10000", scene |-> "TiledFlowers10000"],
       [name_str |-> "overlapping_images_100", scene |-> "OverlappingImages100"],
       [name_str |-> "overlapping_images_1000", scene |-> "OverlappingImages1000"],
       [name_str |-> "overlapping_images_10000", scene |-> "OverlappingImages10000"],
       [name_str |-> "clipped_image_cards_100", scene |-> "ClippedImageCards100"],
       [name_str |-> "clipped_image_cards_1000", scene |-> "ClippedImageCards1000"],
       [name_str |-> "clipped_image_cards_10000", scene |-> "ClippedImageCards10000"],
       [name_str |-> "large_overlapping_images_100", scene |-> "LargeOverlappingImages100"],
       [name_str |-> "large_overlapping_images_1000", scene |-> "LargeOverlappingImages1000"],
       [name_str |-> "large_overlapping_images_10000", scene |-> "LargeOverlappingImages10000"],
       [name_str |-> "rotated_images_100", scene |-> "RotatedImages100"],
       [name_str |-> "rotated_images_1000", scene |-> "RotatedImages1000"],
       [name_str |-> "rotated_images_10000", scene |-> "RotatedImages10000"],
       [name_str |-> "image_cards_with_borders_100", scene |-> "ImageCardsWithBorders100"],
       [name_str |-> "image_cards_with_borders_1000", scene |-> "ImageCardsWithBorders1000"],
       [name_str |-> "image_cards_with_borders_10000", scene |-> "ImageCardsWithBorders10000"],
       [name_str |-> "mixed_image_and_vector_100", scene |-> "MixedImageAndVector100"],
       [name_str |-> "mixed_image_and_vector_1000", scene |-> "MixedImageAndVector1000"],
       [name_str |-> "mixed_image_and_vector_10000", scene |-> "MixedImageAndVector10000"],
       [name_str |-> "paths_and_images_100", scene |-> "PathsAndImages100"] >>

\* impl VelloScene for $scene: what info() returns, the State type, and the
\* draw routine draw() delegates to with its fixed arguments (count: the
\* element count of counted_image_scene!, for PathsAndImages100 the
\* iterations argument; batch: its paths_per_batch argument).
VelloSceneImpls ==
    [ FilledRects |->
          [name |-> "filled_rects", width |-> 1024, height |-> 768, state |-> "()",
           draw_fn |-> "FilledRects::draw", count |-> 0, batch |-> 0],
      TiledFlowers100 |->
          [name |-> "tiled_flowers_100", width |-> 1920, height |-> 1080, state |-> "ImageGridState",
           draw_fn |-> "draw_tiled_flowers", count |-> 100, batch |-> 0],
      TiledFlowers300 |->
          [name |-> "tiled_flowers_300", width |-> 1920, height |-> 1080, state |-> "ImageGridState",
           draw_fn |-> "draw_tiled_flowers", count |-> 300, batch |-> 0],
      TiledFlowers1000 |->
          [name |-> "tiled_flowers_1000", width |-> 1920, height |-> 1080, state |-> "ImageGridState",
           draw_fn |-> "draw_tiled_flowers", count |-> 1000, batch |-> 0],
      TiledFlowers10000 |->
          [name |-> "tiled_flowers_10000", width |-> 1920, height |-> 1080, state |-> "ImageGridState",
           draw_fn |-> "draw_tiled_flowers", count |-> 10000, batch |-> 0],
      OverlappingImages100 |->
          [name |-> "overlapping_images_100", width |-> 1920, height |-> 1080, state |-> "ImageGridState",
           draw_fn |-> "draw_overlapping_images", count |-> 100, batch |-> 0],
      OverlappingImages1000 |->
          [name |-> "overlapping_images_1000", width |-> 1920, height |-> 1080, state |-> "ImageGridState",
           draw_fn |-> "draw_overlapping_images", count |-> 1000, batch |-> 0],
      OverlappingImages10000 |->
          [name |-> "overlapping_images_10000", width |-> 1920, height |-> 1080, state |-> "ImageGridState",
           draw_fn |-> "draw_overlapping_images", count |-> 10000, batch |-> 0],
      ClippedImageCards100 |->
          [name |-> "clipped_image_cards_100", width |-> 1920, height |-> 1080, state |-> "ImageGridState",
           draw_fn |-> "draw_clipped_image_cards", count |-> 100, batch |-> 0],
      ClippedImageCards1000 |->
          [name |-> "clipped_image_cards_1000", width |-> 1920, height |-> 1080, state |-> "ImageGridState",
           draw_fn |-> "draw_clipped_image_cards", count |-> 1000, batch |-> 0],
      ClippedImageCards10000 |->
          [name |-> "clipped_image_cards_10000", width |-> 1920, height |-> 1080, state |-> "ImageGridState",
           draw_fn |-> "draw_clipped_image_cards", count |-> 10000, batch |-> 0],
      LargeOverlappingImages100 |->
          [name |-> "large_overlapping_images_100", width |-> 1920, height |-> 1080, state |-> "ImageGridState",
           draw_fn |-> "draw_large_overlapping_images", count |-> 100, batch |-> 0],
      LargeOverlappingImages1000 |->
          [name |-> "large_overlapping_images_1000", width |-> 1920, height |-> 1080, state |-> "ImageGridState",
           draw_fn |-> "draw_large_overlapping_images", count |-> 1000, batch |-> 0],
      LargeOverlappingImages10000 |->
          [name |-> "large_overlapping_images_10000", width |-> 1920, height |-> 1080, state |-> "ImageGridState",
           draw_fn |-> "draw_large_overlapping_images", count |-> 10000, batch |-> 0],
      RotatedImages100 |->
          [name |-> "rotated_images_100", width |-> 1920, height |-> 1080, state |-> "ImageGridState",
           draw_fn |-> "draw_rotated_images", count |-> 100, batch |-> 0],
      RotatedImages1000 |->
          [name |-> "rotated_images_1000", width |-> 1920, height |-> 1080, state |-> "ImageGridState",
           draw_fn |-> "draw_rotated_images", count |-> 1000, batch |-> 0],
      RotatedImages10000 |->
          [name |-> "rotated_images_10000", width |-> 1920, height |-> 1080, state |-> "ImageGridState",
           draw_fn |-> "draw_rotated_images", count |-> 10000, batch |-> 0],
      ImageCardsWithBorders100 |->
          [name |-> "image_cards_with_borders_100", width |-> 1920, height |-> 1080, state |-> "ImageGridState",
           draw_fn |-> "draw_image_cards_with_borders", count |-> 100, batch |-> 0],
      ImageCardsWithBorders1000 |->
          [name |-> "image_cards_with_borders_1000", width |-> 1920, height |-> 1080, state |-> "ImageGridState",
           draw_fn |-> "draw_image_cards_with_borders", count |-> 1000, batch |-> 0],
      ImageCardsWithBorders10000 |->
          [name |-> "image_cards_with_borders_10000", width |-> 1920, height |-> 1080, state |-> "ImageGridState",
           draw_fn |-> "draw_image_cards_with_borders", count |-> 10000, batch |-> 0],
      MixedImageAndVector100 |->
          [name |-> "mixed_image_and_vector_100", width |-> 1920, height |-> 1080, state |-> "ImageGridState",
           draw_fn |-> "draw_mixed_image_and_vector", count |-> 100, batch |-> 0],
      MixedImageAndVector1000 |->
          [name |-> "mixed_image_and_vector_1000", width |-> 1920, height |-> 1080, state |-> "ImageGridState",
           draw_fn |-> "draw_mixed_image_and_vector", count |-> 1000, batch |-> 0],
      MixedImageAndVector10000 |->
          [name |-> "mixed_image_and_vector_10000", width |-> 1920, height |-> 1080, state |-> "ImageGridState",
           draw_fn |-> "draw_mixed_image_and_vector", count |-> 10000, batch |-> 0],
      PathsAndImages100 |->
          [name |-> "paths_and_images_100", width |-> 1920, height |-> 1080, state |-> "ImageGridState",
           draw_fn |-> "draw_paths_and_images", count |-> 10, batch |-> 100] ]

\* Variant: the bench_name of one scene differs from the string it is
\* registered under.
Info_Misnamed(scene) ==
    IF scene = "TiledFlowers300"
    THEN [VelloSceneImpls[scene] EXCEPT !.name = "tiled_flowers_0300"]
    ELSE VelloSceneImpls[scene]

\* <$scene as VelloScene>::info(), and with it the scene's routines.
Info(scene) == VelloSceneImpls[scene]

\* get_vello_scenes() over the whole table: vec![$(<$scene>::info()),*]
AllVelloScenes == [k \in 1..Len(Registration) |-> Info(Registration[k].scene)]

\* Names no arm of the match has.
Unregistered ==
    {UnknownName, "", "tiled_flowers", "paths_and_images_10", "FilledRects",
     "tiled_flowers_0300"}

\* The names setup_scene and draw_scene are called with.
DispatchNames == {AllVelloScenes[k].name : k \in 1..Len(AllVelloScenes)} \cup Unregistered

\* `match name { $($name_str => ..),* _ => .. }`: the first arm whose pattern
\* equals the name, from arm k on; 0 is the `_` arm.
RECURSIVE FirstArm(_, _)
FirstArm(nm, k) ==
    IF k > Len(Registration) THEN 0
    ELSE IF Registration[k].name_str = nm THEN k
    ELSE FirstArm(nm, k + 1)

\* Variant: a name no arm has is given to the first arm.
MatchArm_DefaultsToFirst(nm) == IF FirstArm(nm, 1) = 0 THEN 1 ELSE FirstArm(nm, 1)

\* The arm setup_scene / draw_scene take for a name.
MatchArm(nm) == FirstArm(nm, 1)

\* ---- the generator of draw_paths_and_images
\* A u64 is its eight bytes, least significant first (SEED above).
\* 6_364_136_223_846_793_005 = 0x5851F42D4C957F2D
LCG_MULTIPLIER == <<45, 127, 149, 76, 45, 244, 81, 88>>

\* u64::wrapping_mul: the low 64 bits of the product.  ck is column k of the
\* long multiplication with the carry of column k - 1.
WrappingMul(a, b) ==
    LET c1 == a[1] * b[1]
        c2 == a[1] * b[2] + a[2] * b[1] + (c1 \div 256)
        c3 == a[1] * b[3] + a[2] * b[2] + a[3] * b[1] + (c2 \div 256)
        c4 == a[1] * b[4] + a[2] * b[3] + a[3] * b[2] + a[4] * b[1] + (c3 \div 256)
        c5 == a[1] * b[5] + a[2] * b[4] + a[3] * b[3] + a[4] * b[2] + a[5] * b[1] + (c4 \div 256)
        c6 == a[1] * b[6] + a[2] * b[5] + a[3] * b[4] + a[4] * b[3] + a[5] * b[2] + a[6] * b[1] + (c5 \div 256)
        c7 == a[1] * b[7] + a[2] * b[6] + a[3] * b[5] + a[4] * b[4] + a[5] * b[3] + a[6] * b[2] + a[7] * b[1] + (c6 \div 256)
        c8 == a[1] * b[8] + a[2] * b[7] + a[3] * b[6] + a[4] * b[5] + a[5] * b[4] + a[6] * b[3] + a[7] * b[2] + a[8] * b[1] + (c7 \div 256)
    IN <<c1 % 256, c2 % 256, c3 % 256, c4 % 256, c5 % 256, c6 % 256, c7 % 256,
         c8 % 256>>

\* u64::wrapping_add(1)
WrappingAdd1(a) ==
    LET d1 == a[1] + 1
        d2 == a[2] + (d1 \div 256)
        d3 == a[3] + (d2 \div 256)
        d4 == a[4] + (d3 \div 256)
        d5 == a[5] + (d4 \div 256)
        d6 == a[6] + (d5 \div 256)
        d7 == a[7] + (d6 \div 256)
        d8 == a[8] + (d7 \div 256)
    IN <<d1 % 256, d2 % 256, d3 % 256, d4 % 256, d5 % 256, d6 % 256, d7 % 256,
         d8 % 256>>

\* seed = seed.wrapping_mul(6_364_136_223_846_793_005).wrapping_add(1)
NextSeed(seed) == WrappingAdd1(WrappingMul(seed, LCG_MULTIPLIER))

\* seed >> 33: bits 33..63, the numerator of the f64 the closure returns
\* (the denominator is 1 << 31).
Shr33(seed) ==
    seed[5] \div 2 + seed[6] * 128 + seed[7] * 32768 + seed[8] * 8388608


\* ---- grid dimensions
\* The least c with c >= sqrt(a / b), for a >= 0 and b > 0.
RECURSIVE CeilSqrtFrom(_, _, _)
CeilSqrtFrom(a, b, c) == IF c * c * b >= a THEN c ELSE CeilSqrtFrom(a, b, c + 1)

\* Is sqrt(a / b) an integer?
ExactSqrt(a, b) == LET c == CeilSqrtFrom(a, b, 0) IN c * c * b = a

\* (x).ceil() as u32 of an f64 x whose real value is sqrt(a / b), x being the
\* result of a division or a product and of a square root.  When the real
\* value is an integer the rounding of the f64 operations decides between
\* that integer and the next: up says which.
CeilF64(a, b, up) ==
    LET c == CeilSqrtFrom(a, b, 0)
    IN IF c * c * b = a /\ a > 0 THEN c + up ELSE c

\* ---- the draw routines
\* A call on the Renderer: the method, the paint it is given (if any) and
\* the integers its other arguments are computed from.
RenderOp(op, paint, arg) == [ op |-> op, paint |-> paint, arg |-> arg ]

\* r.set_transform(Affine::IDENTITY)
SetIdentity == RenderOp("set_transform", "", <<>>)

\* r.set_paint(Image { image: state.image_source.clone(), .. })
SetImagePaint == RenderOp("set_paint", "Image", <<>>)

\* r.fill_rect(&Rect::new(0.0, 0.0, img_w, img_h))
FillImageRect == RenderOp("fill_rect", "", <<>>)

\* The colour tables of the routines.
FilledRectsColors == <<"RED", "GREEN", "BLUE", "YELLOW", "CYAN", "MAGENTA">>
BorderColors ==
    <<"CORNFLOWER_BLUE", "CORAL", "MEDIUM_SEA_GREEN", "GOLD", "ORCHID", "TOMATO">>
MixedColors == <<"STEEL_BLUE", "INDIAN_RED", "DARK_SEA_GREEN", "DARK_ORANGE">>
PathColors ==
    <<"RED", "LIME", "BLUE", "ORANGE", "PURPLE", "TEAL", "CRIMSON", "DARK_CYAN">>

\* The routines whose loops are `for row in 0..rows { for col in 0..cols {
\* if n >= count { .. return; } .. } }`, and those with `for i in 0..count`.
GridFns ==
    {"draw_tiled_flowers", "draw_clipped_image_cards", "draw_rotated_images",
     "draw_image_cards_with_borders", "draw_mixed_image_and_vector"}
LinearFns == {"draw_overlapping_images", "draw_large_overlapping_images"}

\* FilledRects::draw, one cell.
FilledRectOps(l) ==
    << RenderOp("set_paint", FilledRectsColors[((l.row * l.cols + l.col) % 6) + 1], <<>>),
       RenderOp("fill_rect", "", <<l.col, l.row>>) >>

\* draw_tiled_flowers, one cell.
TiledFlowerOps(l) ==
    << RenderOp("set_transform", "", <<l.col, l.row>>), SetImagePaint, FillImageRect >>

\* draw_overlapping_images, one image: fx = (i * 97) % canvas_w, fy = (i * 53) % canvas_h.
OverlappingImageOps(l) ==
    << RenderOp("set_transform", "", <<(l.n * 97) % l.width, (l.n * 53) % l.height>>),
       SetImagePaint, FillImageRect >>

\* draw_large_overlapping_images, one image: t = i / count.
LargeOverlappingImageOps(l) ==
    << RenderOp("set_transform", "", <<l.n, l.count>>), SetImagePaint, FillImageRect >>

\* draw_rotated_images, one cell: angle = n * TAU / count.
RotatedImageOps(l) ==
    << RenderOp("set_transform", "", <<l.col, l.row, l.n, l.count>>),
       SetImagePaint, FillImageRect >>

\* Variant: the card's clip layer is left open.
ClippedImageCardOps_NoPop(l) ==
    << RenderOp("push_clip_layer", "", <<l.col, l.row>>),
       RenderOp("set_transform", "", <<l.col, l.row>>), SetImagePaint, FillImageRect,
       SetIdentity,
       RenderOp("set_stroke", "", <<4>>),
       RenderOp("set_paint", "WHITE", <<>>),
       RenderOp("stroke_path", "", <<l.col, l.row>>) >>

\* draw_clipped_image_cards, one card: the image inside a clip layer, then
\* the border.  Stroke widths are in halves.
ClippedImageCardOps(l) ==
    << RenderOp("push_clip_layer", "", <<l.col, l.row>>),
       RenderOp("set_transform", "", <<l.col, l.row>>), SetImagePaint, FillImageRect,
       SetIdentity,
       RenderOp("pop_layer", "", <<>>),
       RenderOp("set_stroke", "", <<4>>),
       RenderOp("set_paint", "WHITE", <<>>),
       RenderOp("stroke_path", "", <<l.col, l.row>>) >>

\* draw_image_cards_with_borders, one card: outer border, the image inside
\* a clip layer, inner highlight.
BorderedImageCardOps(l) ==
    << RenderOp("set_stroke", "", <<6>>),
       RenderOp("set_paint", BorderColors[(l.n % 6) + 1], <<>>),
       RenderOp("stroke_path", "", <<l.col, l.row, 2>>),
       RenderOp("push_clip_layer", "", <<l.col, l.row>>),
       RenderOp("set_transform", "", <<l.col, l.row>>), SetImagePaint, FillImageRect,
       SetIdentity,
       RenderOp("pop_layer", "", <<>>),
       RenderOp("set_stroke", "", <<3>>),
       RenderOp("set_paint", "WHITE", <<>>),
       RenderOp("stroke_path", "", <<l.col, l.row, 0>>) >>

\* draw_mixed_image_and_vector, one cell: an image tile when n is even, a
\* filled and stroked rectangle when it is odd.
MixedCellOps(l) ==
    IF l.n % 2 = 0
    THEN << RenderOp("set_transform", "", <<l.col, l.row>>), SetImagePaint,
            FillImageRect, SetIdentity >>
    ELSE << RenderOp("set_paint", MixedColors[(l.n % 4) + 1], <<>>),
            RenderOp("fill_rect", "", <<l.col, l.row>>),
            RenderOp("set_stroke", "", <<2>>),
            RenderOp("set_paint", "WHITE", <<>>),
            RenderOp("stroke_rect", "", <<l.col, l.row>>) >>

\* draw_paths_and_images: the rng() calls one path makes: two for move_to,
\* then seg_count = 4 + global_idx % 3 segments of 2 (line_to), 4 (quad_to)
\* or 6 (curve_to) each.
RngCalls(global_idx) ==
    2 + (4 + (global_idx % 3)) * (2 * ((global_idx % 3) + 1))

\* draw_paths_and_images, one path whose coordinates rng() has returned:
\* filled when global_idx is even, stroked when it is odd.
PathOps(l, vals) ==
    LET global_idx == l.iter * l.batch + l.p
        color == PathColors[(global_idx % 8) + 1]
    IN IF global_idx % 2 = 0
       THEN << RenderOp("set_paint", color, <<>>),
               RenderOp("fill_path", "", <<global_idx % 3>> \o vals) >>
       ELSE << RenderOp("set_stroke", "", <<3>>),
               RenderOp("set_paint", color, <<>>),
               RenderOp("stroke_path", "", <<global_idx % 3>> \o vals) >>

\* draw_paths_and_images, the image that ends a round: col = iter % img_cols,
\* row = iter / img_cols.
RoundImageOps(l) ==
    << RenderOp("set_transform", "", <<l.iter % l.cols, l.iter \div l.cols>>),
       SetImagePaint, FillImageRect, SetIdentity >>

\* The body of the innermost loop of a routine.
BodyOps(l) ==
    CASE l.fn = "FilledRects::draw" -> FilledRectOps(l)
      [] l.fn = "draw_tiled_flowers" -> TiledFlowerOps(l)
      [] l.fn = "draw_overlapping_images" -> OverlappingImageOps(l)
      [] l.fn = "draw_large_overlapping_images" -> LargeOverlappingImageOps(l)
      [] l.fn = "draw_rotated_images" -> RotatedImageOps(l)
      [] l.fn = "draw_clipped_image_cards" -> ClippedImageCardOps(l)
      [] l.fn = "draw_image_cards_with_borders" -> BorderedImageCardOps(l)
      [] l.fn = "draw_mixed_image_and_vector" -> MixedCellOps(l)

\* What `if n >= count { .. return; }` issues before it returns.
EarlyReturnOps(fn) ==
    IF fn \in {"draw_tiled_flowers", "draw_rotated_images"} THEN <<SetIdentity>> ELSE <<>>

\* What follows the loops.
TrailingOps(fn) ==
    IF fn \in {"draw_tiled_flowers", "draw_rotated_images"} \cup LinearFns
    THEN <<SetIdentity>> ELSE <<>>

\* The methods of Renderer that open a layer; pop_layer closes one.
PushLayerMethods ==
    {"push_layer", "push_clip_layer", "push_blend_layer", "push_opacity_layer",
     "push_mask_layer", "push_filter_layer"}

\* The nesting depth after each of the operations, from depth d.
RECURSIVE Depths(_, _)
Depths(ops, d) ==
    IF ops = <<>> THEN <<>>
    ELSE LET o == Head(ops).op
             e == CASE o \in PushLayerMethods -> d + 1
                    [] o = "pop_layer" -> d - 1
                    [] OTHER -> d
         IN <<e>> \o Depths(Tail(ops), e)

\* The least of d and the numbers in ds.
RECURSIVE Lowest(_, _)
Lowest(ds, d) ==
    IF ds = <<>> THEN d
    ELSE Lowest(Tail(ds), IF Head(ds) < d THEN Head(ds) ELSE d)

\* How many of the operations are calls of one of the methods.
RECURSIVE Issued(_, _)
Issued(ops, methods) ==
    IF ops = <<>> THEN 0
    ELSE (IF Head(ops).op \in methods THEN 1 ELSE 0) + Issued(Tail(ops), methods)

\* Is the operation a set_paint with the image?
IsImagePaint(o) == o = SetImagePaint

\* The routine's locals after it has issued ops: the renderer's layer depth,
\* the lowest depth it went through, the layers opened, and the paths and
\* images drawn.
Account(l, ops) ==
    LET ds == Depths(ops, l.depth)
    IN [l EXCEPT !.depth = IF ds = <<>> THEN @ ELSE ds[Len(ds)],
                 !.low = Lowest(ds, @),
                 !.pushed = @ + Issued(ops, PushLayerMethods),
                 !.paths = @ + Issued(ops, {"fill_path", "stroke_path"}),
                 !.images = @ + Len(SelectSeq(ops, IsImagePaint))]

\* Variant: the generator's state is kept in a static and outlives the call.
Seed0_Carried(prev) == prev.seed

\* let mut seed: u64 = 12345, a local of every call; prev is what the
\* previous call left.
Seed0(prev) == SEED

\* The statements of a routine before its loops: the canvas is r.width() by
\* r.height(), the grid is computed from the count and the aspect ratio.
\* draw_paths_and_images computes (iterations + img_cols - 1) / img_cols,
\* which fails for iterations = 0 (img_cols = 0).
Prologue(info, up, prev) ==
    LET fn == info.draw_fn
        w == info.width
        h == info.height
        count == info.count
        cols == CASE fn = "FilledRects::draw" -> FILLED_RECTS_COLS
                  [] fn \in GridFns -> CeilF64(count * w, h, up)
                  [] fn = "draw_paths_and_images" -> CeilSqrtFrom(count, 1, 0)
                  [] OTHER -> 0
        rows == CASE fn = "FilledRects::draw" -> FILLED_RECTS_ROWS
                  [] fn = "draw_tiled_flowers" -> CeilF64(count * h, w, up)
                  [] fn \in LinearFns -> 0
                  [] cols = 0 -> 0
                  [] OTHER -> (count + cols - 1) \div cols
    IN [NoLocals EXCEPT
           !.fn = fn, !.count = count, !.batch = info.batch,
           !.width = w, !.height = h, !.rows = rows, !.cols = cols,
           !.seed = Seed0(prev),
           !.at = IF fn \notin LinearFns /\ cols = 0 THEN "panic" ELSE "loop"]

\* A routine returns after issuing ops.
Returns(l, ops) == [ next |-> Account([l EXCEPT !.at = "returned"], ops), ops |-> ops ]

\* A routine issues ops and goes on from l.
Continues(l, ops) == [ next |-> Account(l, ops), ops |-> ops ]

\* One call of rng() while a path is built: the seed moves on and the value
\* returned becomes the next coordinate of the path.
RngCall(l) ==
    LET s == NextSeed(l.seed)
    IN [l EXCEPT !.seed = s, !.coords = Append(@, Shr33(s))]

\* One iteration of the innermost loop of the routine, one rng() call of a
\* path under construction, or the routine's return.
Step(l) ==
    CASE l.fn = "draw_paths_and_images" ->
           IF l.iter = l.count THEN Returns(l, <<>>)
           ELSE IF l.p < l.batch /\ Len(l.coords) < RngCalls(l.iter * l.batch + l.p)
           THEN Continues(RngCall(l), <<>>)
           ELSE IF l.p < l.batch
           THEN Continues([l EXCEPT !.p = @ + 1, !.coords = <<>>],
                          PathOps(l, l.coords))
           ELSE Continues([l EXCEPT !.iter = @ + 1, !.p = 0], RoundImageOps(l))
      [] l.fn \in LinearFns ->
           IF l.n = l.count THEN Returns(l, TrailingOps(l.fn))
           ELSE Continues([l EXCEPT !.n = @ + 1], BodyOps(l))
      [] OTHER ->
           IF l.row = l.rows THEN Returns(l, TrailingOps(l.fn))
           ELSE IF l.fn \in GridFns /\ l.n >= l.count
           THEN Returns(l, EarlyReturnOps(l.fn))
           ELSE Continues([l EXCEPT !.n = @ + 1,
                                    !.col = IF l.col + 1 = l.cols THEN 0 ELSE @ + 1,
                                    !.row = IF l.col + 1 = l.cols THEN @ + 1 ELSE @],
                          BodyOps(l))

\* ---- calls of setup_scene, draw_scene and draw_paths_and_images
\* setup_scene(name, r): Some(Box::new(<$scene>::setup(r))) in the arm of
\* the name, None in the `_` arm.
SetupSceneByName ==
    /\ dr.pc = "none"
    /\ \E nm \in DispatchNames :
         LET arm == MatchArm(nm)
         IN dr' = [NoDraw EXCEPT
                      !.pc = "returned", !.entry = "setup_scene", !.name = nm,
                      !.arm = arm,
                      !.ran = IF arm = 0 THEN <<>>
                              ELSE <<[routine |-> "setup",
                                      scene |-> Registration[arm].scene]>>,
                      !.result = IF arm = 0 THEN "None"
                                 ELSE Info(Registration[arm].scene).state]
    /\ UNCHANGED <<runVars, rb, sceneFiles, SCENES, reg>>

\* The roundings the f64 grid computation of a routine can come out with.
Roundings(info) ==
    IF \/ info.draw_fn \in GridFns /\ ExactSqrt(info.count * info.width, info.height)
       \/ info.draw_fn = "draw_tiled_flowers"
            /\ ExactSqrt(info.count * info.height, info.width)
    THEN {0, 1} ELSE {0}

\* draw_scene(name, state, r) with the state the scene's setup returned:
\* <$scene>::draw(state, r) in the arm of the name, panic!("unknown vello
\* scene") in the `_` arm.  The routine runs up to its loops.
DrawSceneByName ==
    /\ dr.pc = "none"
    /\ \E nm \in DispatchNames :
         LET arm == MatchArm(nm)
         IN IF arm = 0
            THEN dr' = [NoDraw EXCEPT !.pc = "panic", !.entry = "draw_scene",
                                      !.name = nm]
            ELSE \E up \in Roundings(Info(Registration[arm].scene)) :
                   LET l == Prologue(Info(Registration[arm].scene), up, NoLocals)
                   IN dr' = [NoDraw EXCEPT
                                !.pc = "draw", !.entry = "draw_scene", !.name = nm,
                                !.arm = arm,
                                !.ran = <<[routine |-> "draw",
                                           scene |-> Registration[arm].scene]>>,
                                !.call = 1, !.up = up,
                                !.first = l, !.cur = l, !.ref = l]
    /\ UNCHANGED <<runVars, rb, sceneFiles, SCENES, reg>>

\* The arguments draw_paths_and_images is called with directly.
PathsAndImagesArgs ==
    {[name |-> "", width |-> 1920, height |-> 1080, state |-> "ImageGridState",
      draw_fn |-> "draw_paths_and_images", count |-> its, batch |-> ppb] :
        its \in 0..MaxRounds, ppb \in 0..MaxBatch}

\* draw_paths_and_images(state, r, iterations, paths_per_batch)
CallDrawPathsAndImages ==
    /\ dr.pc = "none"
    /\ \E info \in PathsAndImagesArgs :
         LET l == Prologue(info, 0, NoLocals)
         IN dr' = [NoDraw EXCEPT
                      !.pc = IF l.at = "panic" THEN "panic" ELSE "draw",
                      !.entry = "draw_paths_and_images",
                      !.call = 1, !.first = l, !.cur = l, !.ref = l]
    /\ UNCHANGED <<runVars, rb, sceneFiles, SCENES, reg>>

\* The routine goes through one iteration of its innermost loop, or returns.
\* From the second call on, the first call is replayed beside it from the
\* locals it began with.
DrawLoop ==
    /\ dr.pc = "draw"
    /\ dr.cur.at = "loop"
    /\ LET s == Step(dr.cur)
           t == Step(dr.ref)
       IN dr' = [dr EXCEPT !.cur = s.next, !.ops = s.ops,
                           !.ref = t.next, !.refOps = t.ops]
    /\ UNCHANGED <<runVars, rb, sceneFiles, SCENES, reg>>

\* The caller calls the routine again with the same state and renderer
\* dimensions, as the closure of a benchmark does on every iteration.
DrawAgain ==
    /\ dr.pc = "draw"
    /\ dr.cur.at = "returned"
    /\ dr.call < MaxDraws
    /\ LET info == [name |-> dr.name, width |-> dr.cur.width, height |-> dr.cur.height,
                    state |-> "ImageGridState", draw_fn |-> dr.cur.fn,
                    count |-> dr.cur.count, batch |-> dr.cur.batch]
       IN dr' = [dr EXCEPT !.call = @ + 1,
                           !.ran = IF dr.entry = "draw_scene"
                                   THEN Append(@, [routine |-> "draw",
                                                   scene |-> Registration[dr.arm].scene])
                                   ELSE @,
                           !.cur = Prologue(info, dr.up, dr.cur),
                           !.ops = <<>>,
                           !.ref = dr.first,
                           !.refOps = <<>>]
    /\ UNCHANGED <<runVars, rb, sceneFiles, SCENES, reg>>

DrawInit ==
    /\ wasm = FALSE
    /\ NoRun
    /\ rb = NoReadback
    /\ sceneFiles = <<>>
    /\ SCENES = NoScenes
    /\ reg = NoCalls
    /\ dr = NoDraw

DrawNext ==
    \/ SetupSceneByName
    \/ DrawSceneByName
    \/ CallDrawPathsAndImages
    \/ DrawLoop
    \/ DrawAgain

DrawSpec == DrawInit /\ [][DrawNext]_vars


\* ================================================================== claims
\* The run returned a BenchmarkResult (a driver's early return gives none).
Completed == pc = "done" /\ result.kind = "some"

\* Max(a, b)
Max(a, b) == IF a >= b THEN a ELSE b

\* C1: in every run, for every warmup and iteration count, the calibration
\* callback is invoked exactly once: never twice, always before any measured
\* invocation of the closure, only after all warmup invocations, and a run
\* that returns has invoked it.
C1_CalibratedOnceBetweenPhases ==
    /\ hist.cb <= 1
    /\ hist.meas > 0 => hist.cb = 1
    /\ hist.cb = 1 => hist.cbAt = <<warmup, 0>>
    /\ hist.cb = 0 => hist.lastMark \notin {<<"measure:start">>, <<"measure:end">>}
    /\ Completed => hist.cb = 1

C1_Witness ==
    /\ Completed
    /\ caller = "run_with_callback"
    /\ warmup = MaxWarmup /\ iterations = MaxIters
    /\ hist.cb = 1 /\ hist.cbAt = <<MaxWarmup, 0>>
    /\ hist.meas = MaxIters

\* C2: a run with warmup = W and iterations = N invokes the closure exactly W
\* times in warmup and exactly N times in measurement, in both modes: never
\* more, measurement starts only after W warmup calls, a run that returns has
\* made all W + N calls, no run aborts, and W and N do not change during a run.
C2_CountsHold ==
    /\ hist.warm <= warmup
    /\ hist.meas <= iterations
    /\ hist.meas > 0 => hist.warm = warmup
    /\ Completed => hist.warm = warmup /\ hist.meas = iterations
    /\ caller \in Callers => pc # "aborted"
    /\ pc \in {"mark_measure_end", "span_measure", "result"} =>
           hist.warm + hist.meas = warmup + iterations

C2_ExactInvocationCounts ==
    /\ []C2_CountsHold
    /\ [][pc \notin {"idle", "done"} =>
             (warmup' = warmup /\ iterations' = iterations)]_vars

C2_Witness ==
    /\ Completed
    /\ caller = "scene_cpu"
    /\ warmup = MaxWarmup /\ iterations = MaxIters
    /\ hist.warm = MaxWarmup /\ hist.meas = MaxIters

\* C3: in per-iteration-with-frame-wait mode wait_one_frame is called exactly
\* max(N-1, 0) times; the k-th call comes after exactly k measured invocations
\* and before invocation k+1, so never before the first measured invocation,
\* never after the last, and never during warmup.
C3_FrameWaitsBetweenIterations ==
    /\ hist.meas = 0 => hist.waits = 0
    /\ PerIteration(caller) =>
         /\ hist.waits <= Max(iterations - 1, 0)
         /\ hist.waits <= hist.meas
         /\ hist.meas <= hist.waits + 1
         /\ hist.waits > 0 => hist.waitAt = <<warmup, hist.waits>>
         /\ hist.waits > 0 => hist.waits < iterations
         /\ Completed => hist.waits = Max(iterations - 1, 0)

C3_Witness ==
    /\ Completed
    /\ caller = "run_with_frame_wait"
    /\ iterations = MaxIters
    /\ hist.waits = MaxIters - 1
    /\ hist.waitAt = <<warmup, MaxIters - 1>>

\* Wall-clock ticks from the measure:start mark to the measure:end mark.
MeasurementSpan == hist.tMeasureEnd - hist.tMeasureStart

\* C4 (as amended): in per-iteration-with-frame-wait mode no frame wait is
\* inside a timed interval, the running total after k timed calls is k*d, and
\* Statistics receives N*d, while the measurement phase spans
\* N*d + max(N-1, 0)*p ticks of wall clock.
C4_PausesExcluded ==
    /\ hist.timedWaits = 0
    /\ PerIteration(caller) =>
         /\ total_ns = hist.elapsed * cost
         /\ statistics.some => hist.handed = <<iterations * cost, iterations>>
         /\ Completed =>
              /\ hist.handed = <<iterations * cost, iterations>>
              /\ MeasurementSpan =
                     iterations * cost + Max(iterations - 1, 0) * WaitOneFrame(wasm)

\* C4 as stated: the measurement phase spans N*d + (N-1)*p and the reported
\* total is N*d.
C4_AsClaimed ==
    (PerIteration(caller) /\ Completed) =>
        /\ hist.handed = <<iterations * cost, iterations>>
        /\ MeasurementSpan = iterations * cost + (iterations - 1) * WaitOneFrame(wasm)

C4_Witness ==
    /\ Completed
    /\ PerIteration(caller)
    /\ wasm
    /\ iterations = MaxIters /\ cost = MaxCost
    /\ hist.handed = <<MaxIters * MaxCost, MaxIters>>
    /\ MeasurementSpan = MaxIters * MaxCost + (MaxIters - 1) * WaitOneFrame(TRUE)
    /\ hist.waits = MaxIters - 1

\* The statements of measure_per_iteration_with_frame_wait after emit_marks is set.
PerIterationLoop ==
    {"pi_mark", "pi_now", "pi_f", "pi_elapsed", "pi_mark_end", "pi_span", "pi_wait",
     "pi_stats"}

C6_MarkOrder ==
    emit_marks =>
        /\ hist.iterSpans <= hist.endMarks
        /\ hist.endMarks <= hist.meas
        /\ hist.meas <= hist.startMarks
        /\ hist.startMarks <= hist.iterSpans + 1
        /\ (Len(hist.lastMark) = 2 /\ hist.lastMark[1] = "iter") =>
               hist.lastMark[2] = hist.startMarks - 1
        /\ (Len(hist.lastMark) = 2 /\ hist.lastMark[1] = "iter:end") =>
               hist.lastMark[2] = hist.endMarks - 1 /\ hist.endMarks = hist.meas

C6_Witness ==
    /\ emit_marks
    /\ hist.startMarks = MaxIters
    /\ hist.meas = MaxIters - 1
    /\ hist.iterSpans = MaxIters - 1
    /\ hist.lastMark = <<"iter", MaxIters - 1>>

\* C7: in bulk mode the clock is read once, after warmup and before the first
\* measured invocation, and elapsed_ns is taken once, after the last; no mark,
\* span or frame wait falls between the two; Statistics is handed the elapsed
\* time of the whole loop, N*d, and N; for N >= 1 the mean is d.
C7_BulkTiming ==
    ~PerIteration(caller) =>
        /\ hist.reads <= 1
        /\ hist.elapsed <= hist.reads
        /\ hist.meas > 0 => hist.reads = 1
        /\ hist.reads = 1 => hist.readAt = <<warmup, 0>>
        /\ hist.elapsed = 1 => hist.elapsedAt = <<warmup, iterations>>
        /\ hist.timedMarks = 0 /\ hist.timedWaits = 0
        /\ hist.waits = 0 /\ hist.startMarks = 0 /\ hist.endMarks = 0
        /\ statistics.some =>
             /\ hist.elapsed = 1
             /\ hist.handed = <<iterations * cost, iterations>>
             /\ statistics.total = iterations * cost
             /\ statistics.iters = iterations
             /\ iterations >= 1 => statistics.mean = cost
        /\ Completed => result.statistics = statistics /\ statistics.some

C7_Witness ==
    /\ Completed
    /\ caller = "run"
    /\ warmup = MaxWarmup /\ iterations = MaxIters /\ cost = MaxCost
    /\ hist.reads = 1 /\ hist.elapsed = 1
    /\ hist.handed = <<MaxIters * MaxCost, MaxIters>>
    /\ result.statistics.mean = MaxCost

\* C8: in every run clear_marks and clear_measures have both been called
\* before the first mark, the first span and the first invocation of the
\* closure; from then on the timeline holds the marks and measures of this
\* run only.
C8_ClearedBeforeUse ==
    /\ (hist.marks > 0 \/ hist.spans > 0 \/ hist.warm + hist.meas > 0) =>
           hist.clearedMarks /\ hist.clearedMeasures
    /\ hist.clearedMarks => perfMarks = (IF wasm THEN hist.marks ELSE 0)
    /\ hist.clearedMeasures => perfMeasures = (IF wasm THEN hist.spans ELSE 0)

\* A second run on the browser, between its two clears: the marks of the run
\* before are gone, its measures are still there.
C8_Witness ==
    /\ wasm
    /\ pc = "clear_measures"
    /\ hist.clearedMarks /\ ~hist.clearedMeasures
    /\ perfMarks = 0
    /\ perfMeasures > 0

\* C9: in a programmatic-scene run setup_scene is called at most once, before
\* any invocation of the closure and outside every timed interval; every draw
\* follows it and receives exactly the state it returned; a run that returns
\* has called it once and drawn W + N times.
C9_SetupOnceBeforeDraws ==
    caller \in ProgrammaticDrivers =>
        /\ hist.setups <= 1
        /\ hist.draws > 0 => hist.setups = 1
        /\ hist.setups = 1 =>
             /\ hist.setupAt = <<0, 0, FALSE>>
             /\ state = hist.setupState
             /\ state.type = StateType(name)
        /\ hist.drawStates \subseteq {hist.setupState}
        /\ hist.draws = hist.warm + hist.meas
        /\ Completed => hist.setups = 1 /\ hist.draws = warmup + iterations

C9_Witness ==
    /\ Completed
    /\ caller = "vello_hybrid_webgl"
    /\ name = "tiled_flowers_100"
    /\ hist.setups = 1
    /\ hist.draws = MaxWarmup + MaxIters
    /\ hist.drawStates = {hist.setupState}
    /\ hist.setupState.type = "ImageGridState"

\* C10 as stated: for every backend an iteration starts from what the first
\* iteration started from, so it puts on the target the commands it issued
\* itself and nothing issued by an earlier iteration: the commands rendered by
\* iteration k are those rendered by the first, one draw of the scene.
C10_AsClaimed ==
    (caller \in Drivers /\ hist.warm + hist.meas > 0) =>
        /\ rend.frame = hist.frameFirst
        /\ rend.frame = DrawCmds(name)

\* C11: draw_scene called with a state whose type is not the State type of the
\* scene registered under the name aborts, having drawn nothing and returned
\* nothing; called with a state of that type it draws the scene and returns;
\* in a run, where the state is what setup_scene returned for the same name,
\* it never aborts.
C11_TypeMismatchAborts ==
    /\ (caller = "draw_scene" /\ name \in VelloScenes) =>
         /\ state.type # StateType(name) =>
                pc = "aborted" /\ rend.cmds = 0 /\ result = NoResult
         /\ state.type = StateType(name) =>
                pc = "done" /\ ~rend.panic /\ rend.cmds = DrawCmds(name)
    /\ (caller \in ProgrammaticDrivers /\ hist.setups = 1) =>
           pc # "aborted" /\ ~rend.panic

C11_Witness ==
    /\ caller = "draw_scene"
    /\ name = "filled_rects"
    /\ state.type = "ImageGridState"
    /\ pc = "aborted"
    /\ rend.panic

\* C12: a category run function called with a name that is not in its
\* registry returns the absent result: it never aborts, constructs no
\* backend, calls neither setup nor the closure, and emits nothing.
C12_UnknownNameIsAbsent ==
    (caller \in CategoryRuns /\ name \notin Registry(caller)) =>
        /\ pc \in {"lookup", "done"}
        /\ pc = "done" => result = AbsentResult
        /\ hist.built = 0 /\ rend = NoRenderer
        /\ hist.setups = 0 /\ state = NoState
        /\ hist.warm + hist.meas = 0
        /\ hist.marks = 0 /\ hist.reads = 0

C12_Witness ==
    /\ ~wasm
    /\ caller = "scene_hybrid"
    /\ name = UnknownName
    /\ pc = "done"
    /\ result = AbsentResult
    /\ hist.built = 0

\* The category's backend exists on the platform the process runs on.
PlatformAppropriate(c) == ~(c \in NativeOnlyDrivers /\ wasm)

\* C13: on a platform that has the category's backend, run called with a name
\* that list() reports builds the backend and returns a result, never the
\* absent one; called with any other name it returns the absent result: the
\* names list() reports are the names run performs a benchmark for.
C13_ListedNamesRun ==
    (caller \in CategoryRuns /\ PlatformAppropriate(caller)) =>
        /\ name \in List(caller) =>
             /\ result # AbsentResult
             /\ pc = "done" => result.kind = "some" /\ result.name = name
             /\ pc \notin {"lookup", "new"} => hist.built = 1
        /\ name \notin List(caller) => (pc = "done" => result = AbsentResult)

C13_Witness ==
    /\ ~wasm
    /\ caller = "scene_skia"
    /\ name \in List("scene_skia")
    /\ Completed
    /\ hist.warm + hist.meas = MaxWarmup + MaxIters

\* An adapter a caller constructed and is using, or has just dropped.
InSession == caller \in {"Renderer::new", "from_state"} /\ pc \in {"session", "done"}

\* C14: on every backend render_to_pixmap leaves the retained draw commands
\* and the ambient drawing state as they were: after any number of calls in a
\* row with no draw operation in between, the adapter still retains what it
\* retained before the first of them, every call of the row read back that same
\* scene, and the call did not reset the scene.
C14_RenderToPixmapIsPureRead ==
    (InSession /\ hist.readback # <<>>) =>
        /\ <<rend.cmds, rend.ambient>> = hist.beforeRead
        /\ \A k \in 1..Len(hist.readback) : hist.readback[k] = hist.beforeRead[1]
        /\ rend.ops[Len(rend.ops)] = "render_to_pixmap"
        /\ Len(rend.ops) > 1 => rend.ops[Len(rend.ops) - 1] # "reset"

C14_Witness ==
    /\ InSession
    /\ rend.kind = "HybridRenderer"
    /\ Len(hist.readback) >= 2
    /\ rend.cmds > 0
    /\ rend.ambient \in Paints
    /\ rend.frame = rend.cmds

\* C15 as stated: a Renderer::new that cannot honour an argument aborts.  The
\* native hybrid adapter aborts for every num_threads other than 0, the WebGL
\* adapter aborts on every call, and an adapter that is returned has kept
\* the num_threads, the level and the render_mode it was given.
C15_AsClaimed ==
    (caller = "Renderer::new" /\ hist.call # <<>>) =>
        LET b  == hist.call[1]
            nt == hist.call[2]
            lv == hist.call[3]
            rm == hist.call[4]
        IN /\ (b = "HybridRenderer" /\ nt # 0) => pc = "aborted"
           /\ b = "WebGlHybridRenderer" => pc = "aborted"
           /\ pc # "aborted" =>
                  rend.settings = [num_threads |-> nt, level |-> lv,
                                   render_mode |-> rm]

\* The operations of an adapter's current call.
OpsOf(r) == {r.ops[k] : k \in 1..Len(r.ops)}

\* C16 as stated: get_image_source is called inside setup and never inside
\* draw, so no call of the benchmarked closure uploads an image, and no upload
\* started in setup is still outstanding inside a timed interval.
C16_AsClaimed ==
    caller \in ProgrammaticDrivers =>
        /\ hist.warm + hist.meas > 0 => "get_image_source" \notin OpsOf(rend)
        /\ hist.setups = 0 => "get_image_source" \notin OpsOf(rend)
        /\ hist.timing => rend.pending = 0

\* The drivers whose closure ends in a GPU render step.
GpuDrivers == {"vello_hybrid", "scene_hybrid"} \cup WebGlDrivers

\* How often operation o occurs in ops, and where it occurs first.
Count(ops, o) == Cardinality({k \in 1..Len(ops) : ops[k] = o})
Index(ops, o) == CHOOSE k \in 1..Len(ops) : ops[k] = o

IsLeastMultiple(m, v) ==
    /\ m % COPY_BYTES_PER_ROW_ALIGNMENT = 0
    /\ m >= v
    /\ m - COPY_BYTES_PER_ROW_ALIGNMENT < v

\* The bytes the destination has received.
Received(out) == Len(out) * (IF out = <<>> THEN 0 ELSE out[1].len)

\* C18: for every target width and height the row stride of the native GPU
\* readback is the least multiple of 256 that is not below 4 * width; align_to
\* and next_multiple_of give the same stride and neither computation leaves
\* the range of u32 (every intermediate stays below 2^30); output row r is
\* the first 4 * width bytes of padded row r, so no padding byte is copied;
\* and the finished destination holds exactly 4 * width * height bytes.
C18_ReadbackStripsPadding ==
    rb.pc # "none" =>
        LET row_bytes == BYTES_PER_PIXEL * rb.width
            a == AlignTo(row_bytes, COPY_BYTES_PER_ROW_ALIGNMENT)
            n == NextMultipleOf(row_bytes, COPY_BYTES_PER_ROW_ALIGNMENT)
        IN /\ a = n
           /\ IsLeastMultiple(a, row_bytes)
           /\ row_bytes + COPY_BYTES_PER_ROW_ALIGNMENT - 1 < 2^30
           /\ rb.pc # "panic"
           /\ rb.pc \in {"copy", "done"} =>
                  /\ IsLeastMultiple(rb.bytes_per_row, row_bytes)
                  /\ rb.size = rb.bytes_per_row * rb.height
           /\ \A r \in 1..Len(rb.out) :
                  /\ rb.out[r].first = (r - 1) * rb.bytes_per_row
                  /\ rb.out[r].len = row_bytes
                  /\ rb.out[r].first + rb.out[r].len <= rb.size
           /\ rb.pc = "done" =>
                  /\ Len(rb.out) = rb.height
                  /\ Received(rb.out) = BYTES_PER_PIXEL * rb.width * rb.height

C18_Witness ==
    /\ rb.pc = "done"
    /\ rb.fn = "into_rgba"
    /\ rb.width = 65
    /\ rb.height = 2
    /\ rb.bytes_per_row = 512
    /\ rb.out = << [first |-> 0, len |-> 260], [first |-> 512, len |-> 260] >>

\* The archives of this build that parse, in the order of SCENE_FILES.
IsOk(f) == f.ok
Parsed == SelectSeq(sceneFiles, IsOk)
Failed == SelectSeq(sceneFiles, LAMBDA f : ~f.ok)

\* C19: an archive that fails to parse is left out and loading goes on: once
\* SCENES is set it holds one SceneItem for each archive that parsed and for
\* no other, in the order of SCENE_FILES; every failure has been logged; the
\* initializer got through every entry, and no thread was aborted.
C19_FailedArchivesAreSkipped ==
    /\ \A t \in Threads : reg.tpc[t] \in {"idle", "loading", "waiting"}
    /\ SCENES.init =>
          /\ Len(SCENES.value) = Len(Parsed)
          /\ \A k \in 1..Len(Parsed) : SCENES.value[k] = SceneItem(Parsed[k].name)
          /\ reg.loads = [k \in 1..Len(sceneFiles) |-> k]
          /\ reg.log = [k \in 1..Len(Failed) |-> Failed[k].name]

C19_Witness ==
    /\ SCENES.init
    /\ ~sceneFiles[1].ok
    /\ sceneFiles[2].ok
    /\ ~sceneFiles[3].ok
    /\ SCENES.value = <<SceneItem(sceneFiles[2].name)>>
    /\ Len(reg.log) = 2

\* What holds of the registries in every state.
C20_SameRegistry ==
    /\ Cardinality(reg.returned) <= 1
    /\ reg.returned # {} => SCENES.init /\ reg.returned = {SCENES.value}
    /\ reg.vello \subseteq {GetVelloScenes}
    /\ Len(reg.loads) <= Len(sceneFiles)
    /\ \A j, k \in 1..Len(reg.loads) : reg.loads[j] = reg.loads[k] => j = k

\* C20: the registries are idempotent and fixed after the first access: every
\* call of get_scenes returns the same sequence of descriptors, with the same
\* name, width and height, and so does every call of get_vello_scenes; each
\* archive is deserialized at most once in the process, also when the first
\* calls come from two threads at once; and once SCENES is set no step
\* changes it, or the archives it was loaded from.
C20_RegistryIsFixed ==
    /\ []C20_SameRegistry
    /\ [][SCENES.init => SCENES' = SCENES]_vars
    /\ [][sceneFiles' = sceneFiles]_vars

C20_Witness ==
    /\ SCENES.init
    /\ Len(SCENES.value) > 1
    /\ reg.returned = {SCENES.value}
    /\ reg.calls["t1"] > 1
    /\ reg.calls["t2"] > 0
    /\ reg.vello # {}
    /\ Len(reg.loads) = Len(sceneFiles)

\* C21 as stated: each screenshot function of the core crate renders exactly
\* one frame, and the adapter operations of that frame are, in the same order,
\* those of one call of the closure the corresponding benchmark measures.
C21_AsClaimed ==
    caller \in CoreScreenshots =>
        /\ hist.frames <= 1
        /\ (pc = "done" /\ result # AbsentResult) => hist.frames = 1
        /\ hist.frames = 1 => hist.frameOps = hist.closureOps

\* The entry points of vello_bench_wasm that use HYBRID_STATE.
WebGlEntryPoints == WebGlDrivers \cup WebGlScreenshots

\* The identifier lacks the category prefix, the name it holds is not
\* registered, or HYBRID_STATE was empty when the entry point was called.
Inapplicable ==
    \/ caller \in WebGlDrivers /\ hist.id[1] # Prefix(caller)
    \/ hist.id[Len(hist.id)] \notin Registry(Driver(caller))
    \/ hist.before[1] = NoCanvas

\* C22: a WebGL entry point called with an identifier that lacks its category
\* prefix, with an unknown scene name, or before init_hybrid returns the
\* absent value and never aborts; the canvas, the shared renderer and what it
\* holds are as they were on entry, no renderer was created, no adapter was
\* built, and neither setup nor the closure nor a frame ran.
C22_AbsentWithoutEffect ==
    (caller \in WebGlEntryPoints /\ Inapplicable) =>
        /\ pc \in {"lookup", "done"}
        /\ pc = "done" => result = AbsentResult
        /\ <<canvas, gpuImages, HYBRID_STATE>> = hist.before
        /\ ~HYBRID_STATE.borrowed
        /\ hist.created = 0 /\ hist.built = 0 /\ rend = NoRenderer
        /\ hist.setups = 0 /\ state = NoState
        /\ hist.warm + hist.meas = 0 /\ hist.frames = 0
        /\ hist.marks = 0 /\ hist.reads = 0

C22_Witness ==
    /\ caller = "vello_hybrid_webgl"
    /\ hist.id = <<"scene_hybrid", "filled_rects">>
    /\ pc = "done"
    /\ result = AbsentResult
    /\ canvas = <<1920, 1080>>
    /\ gpuImages > 0

\* ensure_canvas_size has returned in this call of a WebGL entry point.
CanvasEnsured == Driver(caller) \in WebGlDrivers /\ hist.built > 0

\* C23: in every sequence of WebGL benchmark and screenshot calls, once
\* ensure_canvas_size(state, w, h) has returned the canvas is exactly w by h,
\* a WebGlRenderer was created in this call if and only if the canvas had
\* another size on entry, and the renderer the setup and the draws use was
\* created for the size the canvas now has.
C23_RendererFollowsCanvas ==
    CanvasEnsured =>
        /\ canvas = SceneSize(name)
        /\ hist.created \in {0, 1}
        /\ hist.created = 1 <=> hist.before[1] # SceneSize(name)
        /\ HYBRID_STATE.made_for = canvas
        /\ hist.created = 1 => gpuImages <= hist.setups

\* A 1920x1080 scene is being set up on a canvas that an earlier call had
\* left at 1024x768.
C23_Witness ==
    /\ CanvasEnsured
    /\ pc = "setup"
    /\ hist.before[1] = <<1024, 768>>
    /\ canvas = <<1920, 1080>>
    /\ hist.created = 1

\* A benchmark run or a screenshot call whose adapter has been constructed.
AdapterBuilt == caller \in Drivers \cup Screenshots /\ hist.built > 0

\* Is the renderer gpuImages counts the uploads of the backend of this run?
\* On WASM that is the WebGlRenderer of HYBRID_STATE, which only the WebGL
\* entry points use.
UsesGpuImages == Driver(caller) \in WebGlDrivers \/ ~wasm

\* C24: no run shares a live adapter with another and nothing a run produced
\* is present in the backend of a later run: the images in the GPU renderer
\* a run uses are the ones its own setup uploaded, and the scene of its
\* adapter retains no commands before its first frame.
C24_AsClaimed ==
    AdapterBuilt =>
        /\ hist.built = 1
        /\ UsesGpuImages => gpuImages <= hist.setups
        /\ hist.warm + hist.meas + hist.frames = 0 => rend.cmds = 0

\* C26: the runtime-checked guard around the GPU renderer never fails.  No
\* borrow_mut of an adapter's `renderer` cell, in get_image_source,
\* render_and_sync or render_to_pixmap, and no borrow_mut of HYBRID_STATE
\* finds the cell borrowed; every guard on an adapter's cell is gone when the
\* operation that took it returns; the guard on HYBRID_STATE is held from the
\* lookup of a WebGL entry point to its return and by nothing else.
C26_BorrowsNeverOverlap ==
    /\ ~rend.already_borrowed
    /\ ~HYBRID_STATE.already_borrowed
    /\ rend.borrows = 0
    /\ HYBRID_STATE.borrowed <=>
           /\ Driver(caller) \in WebGlDrivers
           /\ pc \notin {"idle", "lookup"}
           /\ result # AbsentResult

\* A WebGL run of an image scene has completed: HYBRID_STATE is still
\* borrowed, setup borrowed the renderer for the upload, and the last call
\* of the closure borrowed it twice, for render and for gl finish.
C26_Witness ==
    /\ Completed
    /\ caller = "vello_hybrid_webgl"
    /\ name = "tiled_flowers_100"
    /\ HYBRID_STATE.borrowed
    /\ hist.setups = 1
    /\ hist.warm > 0 /\ hist.meas > 0
    /\ Count(rend.ops, "borrow_mut") = 2
    /\ Count(rend.ops, "drop") = 2

\* C25: every registered draw routine issues balanced layer operations.  At
\* every point of a draw the pop_layer calls made so far do not exceed the
\* push_*_layer calls (the depth never goes below zero), no layer is open
\* between two elements, and on every return path, the early return at
\* n >= count included, the depth is zero.
C25_LayersBalanced ==
    dr.pc = "draw" =>
        /\ dr.cur.low >= 0
        /\ dr.cur.depth = 0
        /\ dr.cur.at = "returned" => dr.cur.depth = 0 /\ dr.cur.low = 0

\* draw_image_cards_with_borders returns early, at n = count = 10000 with
\* cells of the grid left over, having opened a clip layer for every card.
C25_Witness ==
    /\ dr.entry = "draw_scene"
    /\ dr.name = "image_cards_with_borders_10000"
    /\ dr.cur.at = "returned"
    /\ dr.cur.row < dr.cur.rows
    /\ dr.cur.n = dr.cur.count
    /\ dr.cur.pushed = 10000
    /\ dr.cur.depth = 0

\* The scenes registered under a name.
RegisteredUnder(nm) ==
    {Registration[k].scene : k \in {j \in 1..Len(Registration) : Registration[j].name_str = nm}}

\* C27: name dispatch.  For a name that is not in the registration table
\* setup_scene returns None and no setup routine runs, draw_scene panics and
\* no draw routine runs; for a registered name the routines that run are the
\* setup (for setup_scene) or the draw (for draw_scene, once per call) of
\* the scene registered under that name, with that scene's arguments.
C27_DispatchByName ==
    dr.entry \in {"setup_scene", "draw_scene"} =>
        IF RegisteredUnder(dr.name) = {}
        THEN /\ dr.ran = <<>>
             /\ dr.cur = NoLocals
             /\ dr.entry = "setup_scene" => dr.pc = "returned" /\ dr.result = "None"
             /\ dr.entry = "draw_scene" => dr.pc = "panic"
        ELSE /\ dr.pc # "panic"
             /\ \A j \in 1..Len(dr.ran) :
                    /\ dr.ran[j].scene \in RegisteredUnder(dr.name)
                    /\ dr.ran[j].routine = IF dr.entry = "setup_scene" THEN "setup" ELSE "draw"
             /\ dr.entry = "setup_scene" =>
                    /\ Len(dr.ran) = 1
                    /\ dr.result = VelloSceneImpls[dr.ran[1].scene].state
             /\ dr.entry = "draw_scene" =>
                    /\ Len(dr.ran) = dr.call
                    /\ dr.cur.fn = VelloSceneImpls[dr.ran[1].scene].draw_fn
                    /\ dr.cur.count = VelloSceneImpls[dr.ran[1].scene].count
                    /\ dr.cur.batch = VelloSceneImpls[dr.ran[1].scene].batch

\* draw_scene was called with a name that is a prefix of registered names
\* and has panicked without drawing.
C27_Witness ==
    /\ dr.entry = "draw_scene"
    /\ dr.name = "tiled_flowers"
    /\ dr.pc = "panic"
    /\ dr.ran = <<>>

\* A call of draw_paths_and_images, through draw_scene or direct, in progress
\* or returned.
DrawingPathsAndImages == dr.pc = "draw" /\ dr.cur.fn = "draw_paths_and_images"

\* The rounds a call of draw_paths_and_images has completed, and the
\* elements it has issued.
RoundsDone == dr.cur.iter
Elements == dr.cur.paths + dr.cur.images

\* C28: one draw of paths_and_images_100 performs 100 rounds of 100 path
\* draws followed by one image fill, 10,000 paths and 100 images in total;
\* in general draw_paths_and_images(iterations, paths_per_batch) issues
\* iterations * (paths_per_batch + 1) elements.
C28_AsClaimed ==
    /\ DrawingPathsAndImages =>
          /\ dr.cur.images = RoundsDone
          /\ dr.cur.paths = RoundsDone * dr.cur.batch + dr.cur.p
          /\ dr.cur.at = "returned" =>
                 Elements = dr.cur.count * (dr.cur.batch + 1)
    /\ (DrawingPathsAndImages /\ dr.name = "paths_and_images_100"
            /\ dr.cur.at = "returned") =>
          /\ RoundsDone = 100
          /\ dr.cur.paths = 10000
          /\ dr.cur.images = 100

\* The names of the descriptors get_vello_scenes returns.
ListedNames == {AllVelloScenes[k].name : k \in 1..Len(AllVelloScenes)}

\* C29: for every pair of the registration table the string the match arms
\* use equals the name info() of the scene returns, and no two pairs have
\* the same string; so setup_scene called with the name of a descriptor of
\* get_vello_scenes takes the arm of that descriptor's scene and returns
\* Some, and draw_scene does not panic: the expect("scene not found in
\* setup") of the run functions cannot fail.
C29_NamesAgree ==
    /\ \A k \in 1..Len(Registration) :
           Registration[k].name_str = Info(Registration[k].scene).name
    /\ \A j, k \in 1..Len(Registration) :
           j # k => Registration[j].name_str # Registration[k].name_str
    /\ (dr.entry \in {"setup_scene", "draw_scene"} /\ dr.name \in ListedNames) =>
           /\ dr.arm > 0
           /\ AllVelloScenes[dr.arm].name = dr.name
           /\ dr.result # "None"
           /\ dr.pc # "panic"

\* setup_scene was called with the name of the last descriptor of
\* get_vello_scenes and returned the state of the last registered scene.
C29_Witness ==
    /\ dr.entry = "setup_scene"
    /\ dr.name = AllVelloScenes[24].name
    /\ dr.arm = 24
    /\ dr.ran = <<[routine |-> "setup", scene |-> "PathsAndImages100"]>>
    /\ dr.result = "ImageGridState"

====
